---- MODULE Spec2Model ----
(***************************************************************************)
(* A model of kien's command registration and resolution engine            *)
(* (kien/commands.py): tokens, command matching, dispatch, the suggestion  *)
(* renderer, parent chains and the scoped provider map.                    *)
(*                                                                         *)
(* Python values are represented as follows.  Strings are strings; the     *)
(* sentinel _Undefined and None are the strings Undefined and None; an     *)
(* optional object is a sequence of length 0 or 1; a command is referred   *)
(* to by its index in the commander's `commands` list; an exception is a   *)
(* record.  Python indices are 0-based, the model's are 1-based.           *)
(***************************************************************************)
EXTENDS Integers, Sequences, FiniteSets, TLC

VARIABLES
    commands,   \* create_commander: the `commands` list of _Command objects
    flag,       \* the external condition an is_disabled predicate reads
    pc,         \* "idle", or "called" while a caller holds the outcome of a call
    last,       \* the outcome of the most recent call (what its caller observes)
    context,    \* create_commander: the `context` dict, key -> (obj, is_getter)
    scopes,     \* the _provide objects created and not yet exited, oldest first
    seen,       \* what the most recent provide / exit / require / compose call
                \* observed, until a command is registered
    read,       \* what the most recent mount / all_tokens read observed
    sub,        \* a second commander: its `commands` list and its `context` dict
    composed,   \* per commander, the number of compose calls made on it
    console,    \* the runner's console: what was sent to it, and its last status
    ran,        \* what the most recent _process_line call of the runner observed
    tried,      \* a validator being composed, and what its most recent use observed
    limiter,    \* a RateLimitBackPressure object and the sequence it wraps
    manager     \* the InterfaceManager process: its children and its signals

vars == <<commands, flag, pc, last, context, scopes, seen, read, sub, composed, console, ran,
         tried, limiter, manager>>

----------------------------------------------------------------------------
(* Bounds of the model *)

MaxCommands == 2    \* commands registered on the commander
MaxArgs == 3        \* arguments of one input line
MaxScopes == 3      \* provide scopes open at the same time
MaxChain == 3       \* commands registered where parents are rebound
MaxOwn == 1         \* commands registered on each commander that is composed
MaxCompose == 1     \* compose calls made on one commander
MaxLine == 3        \* characters of one input line
MaxSent == 2        \* data the console was sent
MaxValidators == 3  \* simple validators that a | b or a & b is made of
MaxSignals == 3     \* back-pressure signals one handler receives
MaxYield == 3       \* results the body of a streaming command yields
MaxItems == 4       \* items of the iterable a back-pressure handler wraps

----------------------------------------------------------------------------
(* Python sentinels and the raw input alphabet *)

Undefined == "_Undefined"
None == "None"

Words == {"a", "on"}

RECURSIVE SeqsUpTo(_, _)
SeqsUpTo(S, n) ==
    IF n = 0 THEN {<<>>}
    ELSE LET shorter == SeqsUpTo(S, n - 1)
         IN  shorter \cup {Append(s, x) : s \in {t \in shorter : Len(t) = n - 1}, x \in S}

ArgLists == SeqsUpTo(Words, MaxArgs)

----------------------------------------------------------------------------
(* Validation and transformation *)

\* ValidationError.field: None, the name validate() assigns, or the _Token
\* that _Command.__call__ puts in its place
NoField == [name |-> None, token |-> <<>>]

ValidationError(message) == [type |-> "ValidationError", message |-> message, field |-> NoField]

TRUE_CHOICES == {"true", "1", "on", "yes", "enable"}
FALSE_CHOICES == {"false", "0", "off", "no", "disable"}

\* one_of(choices): the message lists the choices; the model keeps the set
one_of(choices, value) ==
    IF value \notin choices
    THEN <<ValidationError([text |-> "must be one of", choices |-> choices])>>
    ELSE <<>>

\* The transforms of the model: to_bool (kien.transformation, used uninstantiated
\* as in kien/command/set.py: it has no `validate` attribute) and "Upper", a
\* user transform object that has both a `validate` hook and a `transform` method.
UpperValid == {"a"}
UpperOf == [w \in Words |-> IF w = "a" THEN "A" ELSE "ON"]

HasValidateHook(transform) == transform = "Upper"

\* getattr(self.transform, 'validate', noop)(value): <<>> or <<exception>>
UpperError == ValidationError([text |-> "must be a letter", choices |-> {}])

TransformValidate(transform, value) ==
    IF HasValidateHook(transform) /\ value \notin UpperValid
    THEN <<UpperError>>
    ELSE <<>>

\* transform_value(transformator, value): [raised, exc, value]
transform_value(transform, value) ==
    IF transform = "to_bool"
    THEN LET bad == one_of(TRUE_CHOICES \cup FALSE_CHOICES, value)
         IN  IF bad # <<>>
             THEN [raised |-> TRUE, exc |-> bad, value |-> None]
             ELSE [raised |-> FALSE, exc |-> <<>>,
                   value |-> IF value \in TRUE_CHOICES THEN "True" ELSE "False"]
    ELSE IF transform = "Upper"
    THEN [raised |-> FALSE, exc |-> <<>>,
          value |-> IF value \in DOMAIN UpperOf THEN UpperOf[value] ELSE value]
    ELSE [raised |-> FALSE, exc |-> <<>>, value |-> value]

----------------------------------------------------------------------------
(* Validators: kien.validation *)

\* the values validators are tried on
Values == {"beyonce", "BEYONCE", "11", "12"}

\* a validator made by a simple_validator function: the values its function
\* returns for, the message of the ValidationError it raises otherwise
Validator(name, accepts, message) ==
    [kind |-> "simple", name |-> name, accepts |-> accepts,
     message |-> [text |-> message, choices |-> {}]]

\* _AbstractValidator.__or__, __and__
Or(first, second) == [kind |-> "or", first |-> first, second |-> second]
And(first, second) == [kind |-> "and", first |-> first, second |-> second]

\* regex(r'^[a-z]+$'), is_int (any integer), is_int(11)
regex_lower == Validator("regex", {"beyonce"}, "has invalid format")
is_int == Validator("is_int", {"11", "12"}, "must be an integer")
is_int_11 == Validator("is_int(11)", {"11"}, "must be exactly 11")

\* is_int(11) rejects what is no integer with the message of is_int
MessageOf(validator, value) ==
    IF validator.name = "is_int(11)" /\ value \notin is_int.accepts
    THEN is_int.message ELSE validator.message

\* mutant of Validate: `or` tries the second validator first
RECURSIVE Validate_SecondFirst(_, _)
Validate_SecondFirst(validator, value) ==
    IF validator.kind = "simple"
    THEN [ok |-> value \in validator.accepts,
          messages |-> IF value \in validator.accepts THEN <<>>
                       ELSE <<MessageOf(validator, value)>>,
          evaluated |-> <<validator.name>>]
    ELSE LET first == Validate_SecondFirst(validator.first, value)
             second == Validate_SecondFirst(validator.second, value)
         IN  IF validator.kind = "or"
             THEN IF second.ok
                  THEN [ok |-> TRUE, messages |-> <<>>, evaluated |-> second.evaluated]
                  ELSE [ok |-> first.ok,
                        messages |-> IF first.ok THEN <<>>
                                     ELSE second.messages \o first.messages,
                        evaluated |-> second.evaluated \o first.evaluated]
             ELSE IF ~first.ok THEN first
                  ELSE [ok |-> second.ok, messages |-> second.messages,
                        evaluated |-> first.evaluated \o second.evaluated]

\* validate_value(validator, value) with Validator.validate, _Or.validate and
\* _And.validate: [ok, messages, evaluated].  `messages` are the parts of the
\* message of the ValidationError raised, which ' or '.join puts together;
\* `evaluated` are the validator functions called, in order
RECURSIVE Validate(_, _)
Validate(validator, value) ==
    IF validator.kind = "simple"
    THEN [ok |-> value \in validator.accepts,
          messages |-> IF value \in validator.accepts THEN <<>>
                       ELSE <<MessageOf(validator, value)>>,
          evaluated |-> <<validator.name>>]
    ELSE LET first == Validate(validator.first, value)
         IN  IF validator.kind = "or"
             THEN IF first.ok THEN first
                  ELSE LET second == Validate(validator.second, value)
                       IN  IF second.ok
                           THEN [ok |-> TRUE, messages |-> <<>>,
                                 evaluated |-> first.evaluated \o second.evaluated]
                           ELSE [ok |-> FALSE,
                                 messages |-> first.messages \o second.messages,
                                 evaluated |-> first.evaluated \o second.evaluated]
             ELSE IF ~first.ok THEN first
                  ELSE LET second == Validate(validator.second, value)
                       IN  [ok |-> second.ok, messages |-> second.messages,
                            evaluated |-> first.evaluated \o second.evaluated]

SimpleValidators == {regex_lower, is_int, is_int_11}

\* the number of simple validators a validator is made of
RECURSIVE Size(_)
Size(validator) ==
    IF validator.kind = "simple" THEN 1 ELSE Size(validator.first) + Size(validator.second)

NoTry == [op |-> "none", a |-> regex_lower, b |-> regex_lower, value |-> None,
          outcome |-> [ok |-> TRUE, messages |-> <<>>, evaluated |-> <<>>]]

\* a | b or a & b is made of the two validators at hand and takes the place
\* of one of them
Combine(kind, side) ==
    /\ Size(tried.a) + Size(tried.b) <= MaxValidators
    /\ LET made == IF kind = "or" THEN Or(tried.a, tried.b) ELSE And(tried.a, tried.b)
       IN  tried' = [NoTry EXCEPT !.a = IF side = "a" THEN made ELSE tried.a,
                                  !.b = IF side = "b" THEN made ELSE tried.b]
    /\ UNCHANGED <<commands, flag, pc, last, context, scopes, seen, read, sub, composed,
                   console, ran, limiter, manager>>

\* one of the two validators at hand is replaced by a simple one
Take(simple, side) ==
    /\ tried' = [NoTry EXCEPT !.a = IF side = "a" THEN simple ELSE tried.a,
                              !.b = IF side = "b" THEN simple ELSE tried.b]
    /\ UNCHANGED <<commands, flag, pc, last, context, scopes, seen, read, sub, composed,
                   console, ran, limiter, manager>>

\* (a | b).validate(value) or (a & b).validate(value)
Try(kind, value) ==
    /\ Size(tried.a) + Size(tried.b) <= MaxValidators
    /\ tried' = [tried EXCEPT !.op = kind, !.value = value,
                              !.outcome = Validate(IF kind = "or" THEN Or(tried.a, tried.b)
                                                   ELSE And(tried.a, tried.b), value)]
    /\ UNCHANGED <<commands, flag, pc, last, context, scopes, seen, read, sub, composed,
                   console, ran, limiter, manager>>

----------------------------------------------------------------------------
(* Tokens *)

Token(value, name, is_optional, greedy, transform, choices, aliases, is_variable) ==
    [value |-> value, name |-> name, is_optional |-> is_optional, greedy |-> greedy,
     transform |-> transform, choices |-> choices, aliases |-> aliases,
     is_variable |-> is_variable]

var(name, value, is_optional, transform, greedy, choices) ==
    Token(value, name, is_optional, greedy, transform, choices, {}, TRUE)

optional(value) == Token(value, None, TRUE, FALSE, None, {}, {}, FALSE)

keyword(value, aliases) == Token(value, None, FALSE, FALSE, None, {}, aliases, FALSE)

\* mutant of TokenMatches: the choices are checked before the transform's
\* validate hook
TokenMatches_ChoicesFirst(token, value) ==
    IF token.value # Undefined
    THEN [ret |-> IF token.value = value \/ value \in token.aliases THEN "True" ELSE "False",
          exc |-> <<>>]
    ELSE LET hook == IF token.name # None /\ token.transform # None
                     THEN TransformValidate(token.transform, value) ELSE <<>>
             choice == IF token.name # None /\ token.choices # {}
                       THEN one_of(token.choices, value) ELSE <<>>
         IN  IF choice # <<>> THEN [ret |-> "raise", exc |-> choice]
             ELSE IF hook # <<>> THEN [ret |-> "raise", exc |-> hook]
             ELSE [ret |-> "True", exc |-> <<>>]

\* _Token.matches: [ret |-> "True" | "False" | "raise", exc |-> <<exception>>]
TokenMatches(token, value) ==
    IF token.value # Undefined
    THEN [ret |-> IF token.value = value \/ value \in token.aliases THEN "True" ELSE "False",
          exc |-> <<>>]
    ELSE LET hook == IF token.name # None /\ token.transform # None
                     THEN TransformValidate(token.transform, value) ELSE <<>>
             choice == IF token.name # None /\ token.choices # {}
                       THEN one_of(token.choices, value) ELSE <<>>
         IN  IF hook # <<>> THEN [ret |-> "raise", exc |-> hook]
             ELSE IF choice # <<>> THEN [ret |-> "raise", exc |-> choice]
             ELSE [ret |-> "True", exc |-> <<>>]

\* _Token.get_label: the text is the upper-cased name or the value; the model
\* keeps the parts the text is built from
TokenLabel(token, with_error) ==
    [text |-> IF token.name # None THEN token.name ELSE token.value,
     upper |-> token.name # None,
     greedy |-> token.greedy,
     optional |-> token.is_optional,
     error |-> token.is_optional /\ with_error,
     var |-> token.name # None /\ ~token.is_optional]

\* mutant of FindToken: a greedy last token takes no surplus argument
FindToken_NoGreedy(tokens, index) ==
    IF Len(tokens) >= index THEN [raised |-> FALSE, token |-> <<tokens[index]>>]
    ELSE [raised |-> TRUE, token |-> <<>>]

\* mutant of FindToken: surplus arguments fall back to the last token even when
\* it is not greedy
FindToken_LastForSurplus(tokens, index) ==
    IF Len(tokens) >= index THEN [raised |-> FALSE, token |-> <<tokens[index]>>]
    ELSE IF tokens = <<>> THEN [raised |-> TRUE, token |-> <<>>]
    ELSE [raised |-> FALSE, token |-> <<tokens[Len(tokens)]>>]

\* _find_token, with `index` 1-based: [raised, token]; raised is the IndexError
\* (also the one `tokens[-1]` raises on an empty list)
FindToken(tokens, index) ==
    IF Len(tokens) >= index THEN [raised |-> FALSE, token |-> <<tokens[index]>>]
    ELSE IF tokens = <<>> THEN [raised |-> TRUE, token |-> <<>>]
    ELSE IF tokens[Len(tokens)].greedy
         THEN [raised |-> FALSE, token |-> <<tokens[Len(tokens)]>>]
         ELSE [raised |-> TRUE, token |-> <<>>]

TokenMismatch(token, exception, value) ==
    [token |-> token, exception |-> exception, value |-> value]

----------------------------------------------------------------------------
(* Commands *)

\* _Command: `func` names the decorated function, `parent` is 0 (None) or the
\* index of the parent command, `is_disabled` is "False", "True" or "pred" (a
\* callable, which reads `flag`), `defaults` are the parameter defaults of func
Command(func, tokens, parent, is_abstract, inject, is_disabled, defaults) ==
    [func |-> func, tokens |-> tokens, parent |-> parent, is_abstract |-> is_abstract,
     inject |-> inject, is_disabled |-> is_disabled, defaults |-> defaults]

\* _Command.is_disabled
IsDisabled(c) == IF c.is_disabled = "pred" THEN flag ELSE c.is_disabled = "True"

\* mutant of IsExecutable: a disabled command stays executable
IsExecutable_IgnoresDisabled(c) == ~c.is_abstract

\* _Command.is_executable
IsExecutable(c) == ~c.is_abstract /\ ~IsDisabled(c)

\* _Command.all_tokens / all_injections: the property recursion along `parent`.
\* [raised, value]; raised is Python's RecursionError: a chain without a cycle
\* holds at most Len(commands) commands, so a deeper recursion never ends
RECURSIVE ChainConcat(_, _, _)
ChainConcat(i, field, depth) ==
    IF depth > Len(commands) THEN [raised |-> TRUE, value |-> <<>>]
    ELSE IF commands[i].parent # 0
    THEN LET up == ChainConcat(commands[i].parent, field, depth + 1)
         IN  IF up.raised THEN up
             ELSE [raised |-> FALSE, value |-> up.value \o commands[i][field]]
    ELSE [raised |-> FALSE, value |-> commands[i][field]]

\* mutant of AllTokens: the command's own tokens come before its parent's
RECURSIVE ChainConcat_OwnFirst(_, _, _)
ChainConcat_OwnFirst(i, field, depth) ==
    IF depth > Len(commands) THEN [raised |-> TRUE, value |-> <<>>]
    ELSE IF commands[i].parent # 0
    THEN LET up == ChainConcat_OwnFirst(commands[i].parent, field, depth + 1)
         IN  IF up.raised THEN up
             ELSE [raised |-> FALSE, value |-> commands[i][field] \o up.value]
    ELSE [raised |-> FALSE, value |-> commands[i][field]]

AllTokens_OwnFirst(i) == ChainConcat_OwnFirst(i, "tokens", 1)

AllTokens(i) == ChainConcat(i, "tokens", 1)

AllInjections(i) == ChainConcat(i, "inject", 1)

\* _Command.get_label
CommandLabel(i, with_errors) ==
    LET tokens == AllTokens(i).value
    IN  [k \in 1..Len(tokens) |->
            TokenLabel(tokens[k], \E m \in 1..Len(with_errors) : with_errors[m].token = tokens[k])]

----------------------------------------------------------------------------
(* Matching *)

InvalidCommandMatch(i) ==
    [type |-> "invalid", command |-> i, token |-> <<>>, token_mismatches |-> <<>>]

PartialCommandMatch(i, token, token_mismatches) ==
    [type |-> "partial", command |-> i, token |-> token, token_mismatches |-> token_mismatches]

ExactCommandMatch(i) ==
    [type |-> "exact", command |-> i, token |-> <<>>, token_mismatches |-> <<>>]

\* the RecursionError that leaves _Command.match when all_tokens never returns
RaisedCommandMatch(i) ==
    [type |-> "RecursionError", command |-> i, token |-> <<>>, token_mismatches |-> <<>>]

\* mutant of MatchLeftOver: collected mismatches alone do not make a Partial
MatchLeftOver_IgnoresMismatches(i, tokens, args, invalid_tokens) ==
    LET required == SelectSeq(SubSeq(tokens, Len(args) + 1, Len(tokens)),
                              LAMBDA t : ~t.is_optional)
    IN  IF required # <<>> THEN PartialCommandMatch(i, <<Head(required)>>, invalid_tokens)
        ELSE ExactCommandMatch(i)

\* _Command.match, after the loop: the left over tokens
MatchLeftOver(i, tokens, args, invalid_tokens) ==
    LET required == SelectSeq(SubSeq(tokens, Len(args) + 1, Len(tokens)),
                              LAMBDA t : ~t.is_optional)
    IN  IF required # <<>> THEN PartialCommandMatch(i, <<Head(required)>>, invalid_tokens)
        ELSE IF invalid_tokens # <<>> THEN PartialCommandMatch(i, <<>>, invalid_tokens)
        ELSE ExactCommandMatch(i)

\* _Command.match, the loop over enumerate(args), from argument `index` on
RECURSIVE MatchArgs(_, _, _, _, _)
MatchArgs(i, tokens, args, index, invalid_tokens) ==
    IF index > Len(args) THEN MatchLeftOver(i, tokens, args, invalid_tokens)
    ELSE LET found == FindToken(tokens, index)
         IN  IF found.raised THEN InvalidCommandMatch(i)
             ELSE LET token == found.token[1]
                      m == TokenMatches(token, args[index])
                  IN  IF m.ret = "False" THEN InvalidCommandMatch(i)
                      ELSE IF m.ret = "raise"
                      THEN IF token.is_variable
                           THEN MatchArgs(i, tokens, args, index + 1,
                                    Append(invalid_tokens,
                                           TokenMismatch(token, m.exc[1], args[index])))
                           ELSE InvalidCommandMatch(i)
                      ELSE MatchArgs(i, tokens, args, index + 1, invalid_tokens)

\* _Command.match
Match(i, args) ==
    IF ~IsExecutable(commands[i]) THEN InvalidCommandMatch(i)
    ELSE LET tokens == AllTokens(i)
         IN  IF tokens.raised THEN RaisedCommandMatch(i)
             ELSE MatchArgs(i, tokens.value, args, 1, <<>>)

\* filter_public_commands: the indices of the executable commands, in list order
filter_public_commands ==
    SelectSeq([k \in 1..Len(commands) |-> k], LAMBDA k : IsExecutable(commands[k]))

\* create_commander._resolve_commands: the matches of a _CommandMatches
ResolveCommands(args) ==
    LET public == filter_public_commands
    IN  [k \in 1..Len(public) |-> Match(public[k], args)]

----------------------------------------------------------------------------
(* Building the arguments of the command function *)

EmptyDict == [n \in {} |-> None]

\* a keyword argument value: one string, or a list of strings
Scalar(v) == [list |-> FALSE, items |-> <<v>>]
List(vs) == [list |-> TRUE, items |-> vs]

\* list(map(_transform, arg)): [raised, exc, value]; the first failure raises
RECURSIVE TransformEach(_, _)
TransformEach(transform, values) ==
    IF values = <<>> THEN [raised |-> FALSE, exc |-> <<>>, value |-> <<>>]
    ELSE LET first == transform_value(transform, Head(values))
         IN  IF first.raised THEN [raised |-> TRUE, exc |-> first.exc, value |-> <<>>]
             ELSE LET rest == TransformEach(transform, Tail(values))
                  IN  IF rest.raised THEN rest
                      ELSE [raised |-> FALSE, exc |-> <<>>,
                            value |-> <<first.value>> \o rest.value]

\* _build_args, from the loop's state (tokens left, args left, result_args):
\* [raised, exc, args]
RECURSIVE BuildArgsFrom(_, _, _)
BuildArgsFrom(tokens, args, result_args) ==
    IF tokens = <<>> \/ args = <<>>
    THEN [raised |-> FALSE, exc |-> <<>>, args |-> result_args]
    ELSE LET token == Head(tokens)
         IN  IF token.name # None
             THEN LET rest == IF token.greedy THEN args ELSE Tail(args)
                      result ==
                          IF token.greedy
                          THEN IF token.transform # None
                               THEN LET each == TransformEach(token.transform, args)
                                    IN  [raised |-> each.raised, exc |-> each.exc,
                                         value |-> List(each.value)]
                               ELSE [raised |-> FALSE, exc |-> <<>>, value |-> List(args)]
                          ELSE IF token.transform # None
                               THEN LET one == transform_value(token.transform, Head(args))
                                    IN  [raised |-> one.raised, exc |-> one.exc,
                                         value |-> Scalar(one.value)]
                               ELSE [raised |-> FALSE, exc |-> <<>>,
                                     value |-> Scalar(Head(args))]
                  IN  IF result.raised
                      THEN [raised |-> TRUE, exc |-> result.exc, args |-> result_args]
                      ELSE BuildArgsFrom(Tail(tokens), rest,
                                         (token.name :> result.value) @@ result_args)
             ELSE BuildArgsFrom(Tail(tokens), Tail(args), result_args)

\* _build_args
BuildArgs(tokens, args) == BuildArgsFrom(tokens, args, EmptyDict)

----------------------------------------------------------------------------
(* Dependency injection *)

\* _Injection
Injection(key, inject_as, collect, default) ==
    [key |-> key, inject_as |-> IF inject_as = None THEN key ELSE inject_as,
     collect |-> collect, default |-> default]

StaticKey == "__commands"

\* the objects given to provide, and what calling one as a getter returns
Objs == {"A", "B"}
Called == [o \in Objs |-> IF o = "A" THEN "A()" ELSE "B()"]

\* the commanders whose state the model keeps: `commands` and `context` are
\* the root's, `sub` is the other's
Commanders == {"root", "sub"}

ContextOf(c) == IF c = "root" THEN context ELSE sub.context

\* static_context['__commands'] of each commander: its own `commands` list
StaticOf == [c \in Commanders |-> IF c = "root" THEN "<commands>" ELSE "<sub commands>"]

\* the receivers connected to signal('require'), one signal for the whole
\* process: extend() connects `your_require`, the requestor of the commander
\* that composes
Receivers == {c \in Commanders : composed[c] > 0}

\* the depth of nested generators at which Python raises RecursionError
RecursionLimit == 3

\* _require of commander c, before the signal is sent: the static value, then
\* the provided one
OwnValues(c, key) ==
    (IF key = StaticKey THEN <<StaticOf[c]>> ELSE <<>>)
    \o (IF key \in DOMAIN ContextOf(c)
        THEN LET entry == ContextOf(c)[key]
             IN  <<IF entry.is_getter THEN Called[entry.obj] ELSE entry.obj>>
        ELSE <<>>)

\* _require of commander c consumed to the end: [raised, values], the values
\* yielded in order and whether RecursionError ended the generator.  send()
\* calls every receiver, each call makes a new generator; the one made by c's
\* own requestor is skipped, every other is delegated to (yield from), and it
\* sends the signal again.  Of the two commanders at most one is another.
RECURSIVE RequireFrom(_, _, _)
RequireFrom(c, key, depth) ==
    IF depth > RecursionLimit THEN [raised |-> TRUE, values |-> <<>>]
    ELSE LET others == Receivers \ {c}
         IN  IF others = {} THEN [raised |-> FALSE, values |-> OwnValues(c, key)]
             ELSE LET inner == RequireFrom(CHOOSE r \in others : TRUE, key, depth + 1)
                  IN  [raised |-> inner.raised,
                       values |-> OwnValues(c, key) \o inner.values]

\* create_commander._require of the root: the values it yields, in order
Require(key) == RequireFrom("root", key, 1).values

\* _Injection._get_default
GetDefault(injection, defaults) ==
    IF injection.key \in DOMAIN defaults THEN defaults[injection.key]
    ELSE injection.default

\* _Injection.resolve: [raised, exc, name, value]
InjectionResolve(injection, defaults) ==
    LET generator == RequireFrom("root", injection.key, 1)
        yielded == generator.values
        RecursionError ==
            [raised |-> TRUE,
             exc |-> <<[type |-> "RecursionError", code |-> None, status |-> 1,
                        message |-> <<>>]>>,
             name |-> injection.inject_as, value |-> Scalar(None)]
    IN  IF injection.collect
        THEN IF generator.raised THEN RecursionError
             ELSE [raised |-> FALSE, exc |-> <<>>, name |-> injection.inject_as,
                   value |-> List(yielded)]
        ELSE IF yielded # <<>>
        THEN [raised |-> FALSE, exc |-> <<>>, name |-> injection.inject_as,
              value |-> Scalar(Head(yielded))]
        ELSE IF generator.raised THEN RecursionError
        ELSE IF GetDefault(injection, defaults) = Undefined
        THEN [raised |-> TRUE,
              exc |-> <<[type |-> "InjectionError", code |-> None, status |-> 1,
                         message |-> <<[kind |-> "not_provided",
                                        labels |-> <<>>,
                                        detail |-> [text |-> injection.inject_as,
                                                    choices |-> {injection.key}],
                                        words |-> <<>>]>>]>>,
              name |-> injection.inject_as, value |-> Scalar(None)]
        ELSE [raised |-> FALSE, exc |-> <<>>, name |-> injection.inject_as,
              value |-> Scalar(GetDefault(injection, defaults))]

\* _build_inject_args, from the loop's state: [raised, exc, args]
RECURSIVE BuildInjectArgsFrom(_, _, _)
BuildInjectArgsFrom(injections, defaults, result_args) ==
    IF injections = <<>> THEN [raised |-> FALSE, exc |-> <<>>, args |-> result_args]
    ELSE LET r == InjectionResolve(Head(injections), defaults)
         IN  IF r.raised THEN [raised |-> TRUE, exc |-> r.exc, args |-> result_args]
             ELSE BuildInjectArgsFrom(Tail(injections), defaults,
                                      (r.name :> r.value) @@ result_args)

\* _build_inject_args
BuildInjectArgs(injections, defaults) == BuildInjectArgsFrom(injections, defaults, EmptyDict)

\* the calls of _Injection.resolve that _build_inject_args makes, in order,
\* each with what it returned or raised
RECURSIVE InjectionsResolved(_, _)
InjectionsResolved(injections, defaults) ==
    IF injections = <<>> THEN <<>>
    ELSE LET r == InjectionResolve(Head(injections), defaults)
         IN  <<[injection |-> Head(injections), defaults |-> defaults,
                raised |-> r.raised, exc |-> r.exc, value |-> r.value]>>
             \o (IF r.raised THEN <<>> ELSE InjectionsResolved(Tail(injections), defaults))

----------------------------------------------------------------------------
(* _CommandMatches: filtering, description, suggestion *)

NoDetail == [text |-> "", choices |-> {}]

\* one line of a rendered message: what it says, the token labels it shows,
\* a validation message, and the words of the input it quotes
Line(kind, labels, detail, words) ==
    [kind |-> kind, labels |-> labels, detail |-> detail, words |-> words]

\* sorted(..., key=_pluck_type): _MatchType orders by its value, a string
\* ('exact' < 'invalid' < 'partial'); sorted is stable
SortByType(matches) ==
    SelectSeq(matches, LAMBDA m : m.type = "exact")
    \o SelectSeq(matches, LAMBDA m : m.type = "invalid")
    \o SelectSeq(matches, LAMBDA m : m.type = "partial")

\* _CommandMatches._filter_matches (group=False).  _filter returns True for an
\* included type, False for an excluded one and None otherwise, and filter()
\* keeps a match only for True
FilterMatches(matches, include, exclude) ==
    SortByType(SelectSeq(matches, LAMBDA m : include # {} /\ m.type \in include))

\* _CommandMatches.describe
Describe(matches, args, discard_invalid) ==
    LET kept == FilterMatches(matches, {}, IF discard_invalid THEN {"invalid"} ELSE {})
        Group(type) ==
            LET of == SelectSeq(kept, LAMBDA m : m.type = type)
            IN  IF of = <<>> THEN <<>>
                ELSE <<Line("group", <<>>, [text |-> type, choices |-> {}], <<>>)>>
                     \o [k \in 1..Len(of) |->
                            Line("match", CommandLabel(of[k].command, of[k].token_mismatches),
                                 NoDetail, <<>>)]
    IN  <<Line("provided args:", <<>>, NoDetail, <<>>),
          Line("args", <<>>, NoDetail, args),
          Line("", <<>>, NoDetail, <<>>)>>
        \o Group("exact") \o Group("invalid") \o Group("partial")

\* mutant of FindSuggestableMatches: the arguments are never shortened
FindSuggestableMatches_NoRetry(matches, args) ==
    FilterMatches(matches, {"exact", "partial"}, {})

\* _CommandMatches.find_suggestable_matches; `resolve` is _resolve_commands
RECURSIVE FindSuggestableMatches(_, _)
FindSuggestableMatches(matches, args) ==
    LET found == FilterMatches(matches, {"exact", "partial"}, {})
    IN  IF found # <<>> THEN found
        ELSE IF Len(args) >= 2
        THEN LET new_args == SubSeq(args, 1, Len(args) - 1)
             IN  FindSuggestableMatches(ResolveCommands(new_args), new_args)
        ELSE <<>>

\* find_suggestable_matches: the argument lists its calls of resolve are
\* given, in the order of the calls
RECURSIVE ResolvedBySearch(_, _)
ResolvedBySearch(matches, args) ==
    IF FilterMatches(matches, {"exact", "partial"}, {}) # <<>> THEN <<>>
    ELSE IF Len(args) >= 2
    THEN LET new_args == SubSeq(args, 1, Len(args) - 1)
         IN  <<new_args>> \o ResolvedBySearch(ResolveCommands(new_args), new_args)
    ELSE <<>>

\* mutant of Suggestion: the first candidate is taken for the only one
Suggestion_FirstCandidate(all_matches, args) ==
    LET matches == FindSuggestableMatches(all_matches, args)
        Usage(match) == Line("usage", CommandLabel(match.command, <<>>), NoDetail, <<>>)
    IN  IF matches = <<>>
        THEN <<Line("could not find the command", <<>>, NoDetail, args)>>
        ELSE IF matches[1].type = "exact"
        THEN <<Line("too many arguments", <<>>, NoDetail, <<>>), Usage(matches[1])>>
        ELSE IF Len(matches[1].token_mismatches) > 0
        THEN [k \in 1..Len(matches[1].token_mismatches) |->
                 Line("mismatch",
                      <<TokenLabel(matches[1].token_mismatches[k].token, FALSE)>>,
                      matches[1].token_mismatches[k].exception.message, <<>>)]
        ELSE <<Line("insufficient arguments", <<>>, NoDetail, <<>>), Usage(matches[1])>>

\* _CommandMatches.suggestion
Suggestion(all_matches, args) ==
    LET matches == FindSuggestableMatches(all_matches, args)
        Usage(match) == Line("usage", CommandLabel(match.command, <<>>), NoDetail, <<>>)
    IN  IF Len(matches) = 1
        THEN LET match == matches[1]
             IN  IF match.type = "exact"
                 THEN <<Line("too many arguments", <<>>, NoDetail, <<>>), Usage(match)>>
                 ELSE IF Len(match.token_mismatches) > 0
                 THEN [k \in 1..Len(match.token_mismatches) |->
                          Line("mismatch",
                               <<TokenLabel(match.token_mismatches[k].token, FALSE)>>,
                               match.token_mismatches[k].exception.message, <<>>)]
                 ELSE <<Line("insufficient arguments", <<>>, NoDetail, <<>>), Usage(match)>>
        ELSE <<Line("could not find the command", <<>>, NoDetail, args)>>
             \o (IF matches # <<>>
                 THEN <<Line(IF Len(matches) = 1 THEN "did you mean" ELSE "did you mean one of",
                             <<>>, NoDetail, <<>>)>>
                      \o [k \in 1..Len(matches) |->
                             Line("candidate", CommandLabel(matches[k].command, <<>>),
                                  NoDetail, <<>>)]
                 ELSE <<>>)

\* mutant of ExactMatch: the first match that is not Invalid is taken
ExactMatch_FirstCandidate(matches) ==
    LET found == SelectSeq(matches, LAMBDA m : m.type # "invalid")
    IN  [raised |-> FALSE, match |-> IF found = <<>> THEN <<>> ELSE <<Head(found)>>]

\* mutant of ExactMatch: of several Exact matches the first is taken
ExactMatch_TakeFirst(matches) ==
    LET exact == SelectSeq(matches, LAMBDA m : m.type = "exact")
    IN  [raised |-> FALSE, match |-> IF exact = <<>> THEN <<>> ELSE <<Head(exact)>>]

\* _CommandMatches.exact_match: [raised, match]; raised is AmbiguousCommandError
ExactMatch(matches) ==
    LET exact == SelectSeq(matches, LAMBDA m : m.type = "exact")
    IN  IF Len(exact) > 1 THEN [raised |-> TRUE, match |-> exact]
        ELSE [raised |-> FALSE, match |-> exact]

----------------------------------------------------------------------------
(* Calling a command, dispatching a line *)

\* CommandResult
CommandResult(message, data) ==
    [message |-> message, data |-> data, success |-> TRUE, status |-> 0]

\* CommandError
CommandError(message, code) ==
    [type |-> "CommandError", code |-> code, status |-> 1, message |-> message]

\* what a caller observes of a call: the matches it computed, the injections
\* it resolved, the command body it ran (with the keyword arguments), the
\* results yielded and the exception
Outcome(op, args, simulate, matches, injected, executed, results, error) ==
    [op |-> op, args |-> args, simulate |-> simulate, matches |-> matches,
     injected |-> injected, executed |-> executed, results |-> results, error |-> error]

NoCall == Outcome("none", <<>>, FALSE, <<>>, <<>>, <<>>, <<>>, <<>>)

\* the fields a command function is decorated to validate with
\* @commander.validate(field=one_of(...)), by function
\* mutant of ValidatedFields: no function is decorated
ValidatedFields_None(func) == <<>>

\* checked: validate(mode=one_of(['a']));
\* say_my_name: validate(name=regex(r'^[a-z]+$') | is_int(11))
ValidatedFields(func) ==
    IF func = "checked"
    THEN <<[field |-> "mode",
            validator |-> [kind |-> "simple", name |-> "one_of", accepts |-> {"a"},
                           message |-> [text |-> "must be one of", choices |-> {"a"}]]]>>
    ELSE IF func = "say_my_name"
    THEN <<[field |-> "name", validator |-> Or(regex_lower, is_int_11)]>>
    ELSE <<>>

\* str(exc) of the ValidationError a validator raises: the message of a
\* simple validator, or the messages ' or '.join put together
Joined(messages) ==
    IF Len(messages) = 1 THEN messages[1]
    ELSE [text |-> " or ", choices |-> {}, parts |-> messages]

\* the command functions whose body raises ValidationError(..., field='mode')
\* after it has yielded its result
RaisingBodies == {"strict"}

InvalidFormat == [text |-> "has invalid format", choices |-> {}]

\* the command functions whose body raises
\* CommandError('failed', data='payload', status=2, code='APP.failure')
\* after it has yielded its result
FailingBodies == {"failing", "sfail"}

\* the command functions whose body yields MaxYield results, and those
\* decorated with @back_pressure(commander)
Streams == {"stream", "flood"}
BackPressured == {"stream", "sfail"}

\* command/quit.py: the functions that raise ConsoleExitEvent()
ExitBodies == {"exit", "quit"}

ConsoleExitEvent ==
    [type |-> "ConsoleExitEvent", code |-> None, status |-> 1, message |-> <<>>]

\* error.CommandError.__init__ with every argument given
BodyError ==
    [type |-> "CommandError", code |-> "APP.failure", status |-> 2,
     message |-> <<[kind |-> "failed", labels |-> <<>>,
                    detail |-> [text |-> "failed", choices |-> {}], words |-> <<>>]>>,
     data |-> "payload"]

\* validation.validate, the wrapper around the function: <<>> or the
\* ValidationError of the first field of `fields` that kwargs holds and the
\* validator rejects, with exc.field = field
RECURSIVE ValidateKwargs(_, _)
ValidateKwargs(fields, kwargs) ==
    IF fields = <<>> THEN <<>>
    ELSE LET field == Head(fields).field
             tried_on == IF field \in DOMAIN kwargs /\ ~kwargs[field].list
                         THEN Validate(Head(fields).validator, kwargs[field].items[1])
                         ELSE [ok |-> TRUE, messages |-> <<>>, evaluated |-> <<>>]
             bad == IF tried_on.ok THEN <<>>
                    ELSE <<ValidationError(Joined(tried_on.messages))>>
         IN  IF bad # <<>>
             THEN <<[bad[1] EXCEPT !.field = [name |-> field, token |-> <<>>]]>>
             ELSE ValidateKwargs(Tail(fields), kwargs)

\* _Command.__call__, except ValidationError: the field is replaced by the
\* first token of the command that has its name
FieldToToken(exc, tokens) ==
    LET named == SelectSeq(tokens, LAMBDA token : token.name = exc.field.name)
    IN  IF exc.field.name # None /\ named # <<>>
        THEN [exc EXCEPT !.field.token = <<Head(named)>>]
        ELSE exc

\* mutant of WrapValidationError: the exception is passed on as it is
WrapValidationError_Passes(exc) == exc

\* Commander.dispatch, except ValidationError: the CommandError raised from
\* it.  str(exc.field) is the token's label or the field's name
WrapValidationError(exc) ==
    CommandError(
        <<Line("invalid argument",
               IF exc.field.name = None THEN <<>>
               ELSE IF exc.field.token # <<>> THEN <<TokenLabel(exc.field.token[1], FALSE)>>
               ELSE <<[text |-> exc.field.name, upper |-> FALSE, greedy |-> FALSE,
                       optional |-> FALSE, error |-> FALSE, var |-> FALSE]>>,
               exc.message, <<>>)>>,
        "INVALID_ARGUMENT_FORMAT")

\* _Command.__call__, the generator drained: [executed, results, error].  The
\* command function yields one CommandResult that carries its arguments.
CallCommand(i, args) ==
    LET func_args == BuildArgs(AllTokens(i).value, args)
        inject_args == BuildInjectArgs(AllInjections(i).value, commands[i].defaults)
        injected == InjectionsResolved(AllInjections(i).value, commands[i].defaults)
    IN  IF func_args.raised
        THEN [injected |-> <<>>, executed |-> <<>>, results |-> <<>>,
              error |-> func_args.exc]
        ELSE IF inject_args.raised
        THEN [injected |-> injected, executed |-> <<>>, results |-> <<>>,
              error |-> inject_args.exc]
        ELSE LET kwargs == inject_args.args @@ func_args.args
                 rejected == ValidateKwargs(ValidatedFields(commands[i].func), kwargs)
             IN  IF rejected # <<>>
                 THEN [injected |-> injected, executed |-> <<>>, results |-> <<>>,
                       error |-> <<FieldToToken(rejected[1], AllTokens(i).value)>>]
                 ELSE IF commands[i].func \in ExitBodies
                 THEN [injected |-> injected,
                       executed |-> <<[command |-> i, kwargs |-> kwargs]>>,
                       results |-> <<>>, error |-> <<ConsoleExitEvent>>]
                 ELSE [injected |-> injected,
                       executed |-> <<[command |-> i, kwargs |-> kwargs]>>,
                       results |-> [n \in 1..(IF commands[i].func \in Streams
                                              THEN MaxYield ELSE 1) |->
                                       CommandResult(<<Line("done", <<>>, NoDetail, <<>>)>>,
                                                     kwargs)],
                       error |-> IF commands[i].func \in RaisingBodies
                                 THEN <<[ValidationError(InvalidFormat)
                                           EXCEPT !.field = [name |-> "mode", token |-> <<>>]]>>
                                 ELSE IF commands[i].func \in FailingBodies
                                 THEN <<BodyError>>
                                 ELSE <<>>]

\* mutant of Execute: every exception of the call is raised again as
\* INVALID_ARGUMENT_FORMAT
Execute_WrapsAll(resolved_commands, args, simulate) ==
    LET exact_match == ExactMatch(resolved_commands)
    IN  IF exact_match.raised \/ exact_match.match = <<>>
        THEN Outcome("dispatch", args, simulate, resolved_commands, <<>>, <<>>, <<>>,
                     <<CommandError(Suggestion(resolved_commands, args), "INVALID_COMMAND")>>)
        ELSE LET call == CallCommand(exact_match.match[1].command, args)
             IN  Outcome("dispatch", args, simulate, resolved_commands, call.injected,
                         call.executed, call.results,
                         IF call.error # <<>>
                         THEN <<CommandError(call.error[1].message, "INVALID_ARGUMENT_FORMAT")>>
                         ELSE <<>>)

\* mutant of Execute: the matches the suggestion is made of are asked for
\* their exact_match
Execute_AmbiguousPrefix(resolved_commands, args, simulate) ==
    LET exact_match == ExactMatch(resolved_commands)
        suggestable == ExactMatch(FindSuggestableMatches(resolved_commands, args))
    IN  IF exact_match.raised \/ (exact_match.match = <<>> /\ suggestable.raised)
        THEN Outcome("dispatch", args, simulate, resolved_commands, <<>>, <<>>, <<>>,
                     <<[type |-> "AmbiguousCommandError", code |-> None, status |-> 1,
                        message |-> <<>>]>>)
        ELSE IF exact_match.match # <<>>
        THEN LET call == CallCommand(exact_match.match[1].command, args)
             IN  Outcome("dispatch", args, simulate, resolved_commands, call.injected,
                         call.executed, call.results,
                         IF call.error # <<>> /\ call.error[1].type = "ValidationError"
                         THEN <<WrapValidationError(call.error[1])>>
                         ELSE call.error)
        ELSE Outcome("dispatch", args, simulate, resolved_commands, <<>>, <<>>, <<>>,
                     <<CommandError(Suggestion(resolved_commands, args), "INVALID_COMMAND")>>)

\* Commander.dispatch past the simulate branch: the unique Exact match is
\* called, or the suggestion is raised
Execute(resolved_commands, args, simulate) ==
    LET exact_match == ExactMatch(resolved_commands)
    IN  IF exact_match.raised
        THEN Outcome("dispatch", args, simulate, resolved_commands, <<>>, <<>>, <<>>,
                     <<[type |-> "AmbiguousCommandError", code |-> None, status |-> 1,
                        message |-> <<>>]>>)
        ELSE IF exact_match.match # <<>>
        THEN LET call == CallCommand(exact_match.match[1].command, args)
             IN  Outcome("dispatch", args, simulate, resolved_commands, call.injected,
                         call.executed,
                         call.results,
                         IF call.error # <<>> /\ call.error[1].type = "ValidationError"
                         THEN <<WrapValidationError(call.error[1])>>
                         ELSE call.error)
        ELSE Outcome("dispatch", args, simulate, resolved_commands, <<>>, <<>>, <<>>,
                     <<CommandError(Suggestion(resolved_commands, args), "INVALID_COMMAND")>>)

\* mutant of DispatchOutcome: the simulate flag is not looked at
DispatchOutcome_IgnoresSimulate(args, simulate) ==
    Execute(ResolveCommands(args), args, simulate)

\* Commander.dispatch on a token list, the generator drained
DispatchOutcome(args, simulate) ==
    LET resolved_commands == ResolveCommands(args)
    IN  IF \E k \in 1..Len(resolved_commands) : resolved_commands[k].type = "RecursionError"
        THEN Outcome("dispatch", args, simulate, <<>>, <<>>, <<>>, <<>>,
                     <<[type |-> "RecursionError", code |-> None, status |-> 1,
                        message |-> <<>>]>>)
        ELSE IF simulate
        THEN Outcome("dispatch", args, simulate, resolved_commands, <<>>, <<>>,
                     <<CommandResult(Describe(resolved_commands, args, TRUE), EmptyDict)>>,
                     <<>>)
        ELSE Execute(resolved_commands, args, simulate)

----------------------------------------------------------------------------
(* The command functions an application decorates *)

kw_a == keyword("a", {})
kw_a_or_on == keyword("a", {"on"})
v_mode == var("mode", Undefined, FALSE, None, FALSE, {"a"})
v_letter == var("letter", Undefined, FALSE, "Upper", FALSE, {"a"})
v_state == var("state", Undefined, TRUE, "to_bool", FALSE, {})
v_lit == var("lit", "on", FALSE, None, FALSE, {"a"})
v_rest == var("rest", Undefined, TRUE, "Upper", TRUE, {})
v_names == var("names", Undefined, FALSE, None, TRUE, {})

Def(func, tokens, is_abstract, is_disabled) ==
    [func |-> func, tokens |-> tokens, is_abstract |-> is_abstract,
     is_disabled |-> is_disabled, inject |-> <<>>, defaults |-> EmptyDict]

Defs ==
    { Def("say", <<kw_a>>, TRUE, "False"),
      Def("anything", <<kw_a_or_on>>, FALSE, "pred"),
      Def("pick", <<v_mode, v_letter>>, FALSE, "False"),
      Def("set", <<v_lit, v_state>>, FALSE, "False"),
      Def("echo", <<kw_a, v_rest>>, FALSE, "False"),
      Def("names", <<v_names>>, FALSE, "False"),
      Def("off", <<kw_a>>, FALSE, "True"),
      Def("noop", <<>>, FALSE, "False") }

----------------------------------------------------------------------------
(* Actions of the commander *)

\* nothing observed of a provide / exit / require / compose call
NoSeen == [op |-> "none", key |-> None, obj |-> None, top |-> FALSE,
           outer |-> <<>>, before |-> EmptyDict, yielded |-> <<>>]

\* Commander.__call__: the decorator registers one command, on a commander
\* that holds fewer than `limit` commands
RegisterUpTo(limit, def, parent) ==
    /\ pc = "idle"
    /\ Len(commands) < limit
    /\ commands' = Append(commands,
                          Command(def.func, def.tokens, parent, def.is_abstract,
                                  def.inject, def.is_disabled, def.defaults))
    /\ seen' = NoSeen
    /\ UNCHANGED <<flag, pc, last, context, scopes, read, sub, composed, console, ran, tried, limiter, manager>>

Register(def, parent) == RegisterUpTo(MaxCommands, def, parent)

\* the condition the is_disabled predicates read changes
SetFlag ==
    /\ pc = "idle"
    /\ \E k \in 1..Len(commands) : commands[k].is_disabled = "pred"
    /\ flag' = ~flag
    /\ UNCHANGED <<commands, pc, last, context, scopes, seen, read, sub, composed, console, ran, tried, limiter, manager>>

\* Commander.dispatch(args, simulate), consumed by its caller
Dispatch(args, simulate) ==
    /\ pc = "idle"
    /\ last' = DispatchOutcome(args, simulate)
    /\ pc' = "called"
    /\ UNCHANGED <<commands, flag, context, scopes, seen, read, sub, composed, console, ran, tried, limiter, manager>>

\* the caller is done with the outcome of its call
Return ==
    /\ pc = "called"
    /\ pc' = "idle"
    /\ last' = NoCall
    /\ UNCHANGED <<commands, flag, context, scopes, seen, read, sub, composed, console, ran, tried, limiter, manager>>

----------------------------------------------------------------------------
(* Parent chains: mount and the all_tokens / all_injections properties *)

NoRead == [op |-> "none", command |-> 0, after_mount |-> FALSE,
           tokens |-> [raised |-> FALSE, value |-> <<>>],
           injections |-> [raised |-> FALSE, value |-> <<>>]]

\* the command functions of the parent chains: each has its own token and its
\* own injection
ChainDefs ==
    { [func |-> "say", tokens |-> <<kw_a>>, is_abstract |-> TRUE, is_disabled |-> "False",
       inject |-> <<Injection("console", None, FALSE, Undefined)>>, defaults |-> EmptyDict],
      [func |-> "my", tokens |-> <<keyword("on", {}), v_mode>>, is_abstract |-> FALSE,
       is_disabled |-> "False",
       inject |-> <<Injection("members", "names", TRUE, Undefined)>>, defaults |-> EmptyDict] }

\* _Command.mount: parent is None (0) or any command, the command itself included
Mount(i, parent) ==
    /\ commands' = [commands EXCEPT ![i].parent = parent]
    /\ read' = [NoRead EXCEPT !.op = "mount", !.command = i]
    /\ UNCHANGED <<flag, pc, last, context, scopes, seen, sub, composed, console, ran, tried, limiter, manager>>

\* a read of the properties all_tokens and all_injections of command i
ReadChain(i) ==
    /\ read' = [op |-> "read", command |-> i,
                after_mount |-> (read.op = "mount" /\ read.command = i),
                tokens |-> AllTokens(i), injections |-> AllInjections(i)]
    /\ UNCHANGED <<commands, flag, pc, last, context, scopes, seen, sub, composed, console, ran, tried, limiter, manager>>

----------------------------------------------------------------------------
(* The scoped provider map: Commander.provide *)

Keys == {"k", "j"}

\* a dict without one key
Pop(dict, key) == [x \in (DOMAIN dict) \ {key} |-> dict[x]]

\* _provide.__init__: the effect on `context`
ProvideInit(dict, key, obj, is_getter) ==
    (key :> [obj |-> obj, is_getter |-> is_getter]) @@ dict

\* mutant of ProvideExit: the key is removed whatever is bound to it
ProvideExit_AlwaysPops(dict, scope) ==
    IF scope.key \notin DOMAIN dict THEN dict ELSE Pop(dict, scope.key)

\* _provide.__exit__: the effect on `context`; `is` compares identities, and
\* the objects of the model are their names
ProvideExit(dict, scope) ==
    IF scope.key \notin DOMAIN dict THEN dict
    ELSE IF scope.obj = dict[scope.key].obj THEN Pop(dict, scope.key)
    ELSE dict

\* commander.provide(key, obj, is_getter): a _provide object is created
Provide(key, obj, is_getter) ==
    /\ Len(scopes) < MaxScopes
    /\ context' = ProvideInit(context, key, obj, is_getter)
    /\ scopes' = Append(scopes, [key |-> key, obj |-> obj])
    /\ seen' = [NoSeen EXCEPT !.op = "provide", !.key = key, !.obj = obj, !.before = context]
    /\ UNCHANGED <<commands, flag, pc, last, read, sub, composed, console, ran, tried, limiter, manager>>

\* the with block of the n-th open _provide object ends: __exit__ runs
ExitScope(n) ==
    /\ n \in 1..Len(scopes)
    /\ context' = ProvideExit(context, scopes[n])
    /\ scopes' = SubSeq(scopes, 1, n - 1) \o SubSeq(scopes, n + 1, Len(scopes))
    /\ seen' = [NoSeen EXCEPT !.op = "exit", !.key = scopes[n].key, !.obj = scopes[n].obj,
                              !.top = (n = Len(scopes)),
                              !.outer = SelectSeq(SubSeq(scopes, 1, n - 1),
                                                  LAMBDA sc : sc.key = scopes[n].key),
                              !.before = context]
    /\ UNCHANGED <<commands, flag, pc, last, read, sub, composed, console, ran, tried, limiter, manager>>

\* the requestor is consumed for a key
RequireKey(key) ==
    /\ seen' = [NoSeen EXCEPT !.op = "require", !.key = key, !.yielded = Require(key)]
    /\ UNCHANGED <<commands, flag, pc, last, context, scopes, read, sub, composed, console, ran, tried, limiter, manager>>

----------------------------------------------------------------------------
(* Composition of commanders: Commander.compose / Commander.extend *)

\* a command function with one keyword and one injection; `defaults` are the
\* defaults of the function's parameters, by parameter name
InjectDef(func, value, injection, defaults) ==
    [func |-> func, tokens |-> <<keyword(value, {})>>, is_abstract |-> FALSE,
     is_disabled |-> "False", inject |-> <<injection>>, defaults |-> defaults]

\* @root('a', inject=['k']) def one(k), @root('on', inject=['k[]']) def all(k),
\* @root('a', inject={'p': 'k'}) def named(p='D'),
\* @root('on', inject=['__commands:commands[]']) def own(commands),
\* @root('a', inject=[require('k', default='X')]) def preset(k)
InjectDefs ==
    { InjectDef("one", "a", Injection("k", None, FALSE, Undefined), EmptyDict),
      InjectDef("all", "on", Injection("k", None, TRUE, Undefined), EmptyDict),
      InjectDef("named", "a", Injection("k", "p", FALSE, Undefined), "p" :> "D"),
      InjectDef("own", "on", Injection(StaticKey, "commands", TRUE, Undefined), EmptyDict),
      InjectDef("preset", "a", Injection("k", None, FALSE, "X"), EmptyDict) }

\* @sub('on', inject=['k']) def subcmd(k)
SubDefs ==
    { InjectDef("subcmd", "on", Injection("k", None, FALSE, Undefined), EmptyDict) }

\* a third commander that only ever is composed: its one command
LeafCommands ==
    <<Command("quit", <<keyword("a", {})>>, 0, FALSE, <<>>, "False", EmptyDict)>>

CommandsOf(c) ==
    IF c = "root" THEN commands ELSE IF c = "sub" THEN sub.commands ELSE LeafCommands

\* mutant of ExtendCommands: the composed commands are put first
ExtendCommands_Prepend(your_commands, mine) ==
    mine
    \o [k \in 1..Len(your_commands) |->
           [your_commands[k] EXCEPT !.parent = IF @ = 0 THEN 0 ELSE @ + Len(mine)]]

\* Commander.extend: your_commands.extend(commands).  The same _Command objects
\* are in both lists; a parent is referred to by its index in the list, which
\* moves by the length of the list extended
ExtendCommands(your_commands, mine) ==
    your_commands
    \o [k \in 1..Len(mine) |->
           [mine[k] EXCEPT !.parent = IF @ = 0 THEN 0 ELSE @ + Len(your_commands)]]

\* Commander.compose: the loop over the commanders given
RECURSIVE ComposeAll(_, _)
ComposeAll(your_commands, commanders) ==
    IF commanders = <<>> THEN your_commands
    ELSE ComposeAll(ExtendCommands(your_commands, CommandsOf(Head(commanders))),
                    Tail(commanders))

\* the commanders a commander is given to compose: other commanders
ComposeArgs ==
    [c \in Commanders |->
        IF c = "root" THEN {<<"sub">>, <<"sub", "leaf">>} ELSE {<<"leaf">>}]

\* a.compose(*commanders): every one extends a's list and connects a's requestor
Compose(a, commanders) ==
    /\ pc = "idle"
    /\ composed[a] < MaxCompose
    /\ IF a = "root"
       THEN commands' = ComposeAll(commands, commanders) /\ sub' = sub
       ELSE sub' = [sub EXCEPT !.commands = ComposeAll(sub.commands, commanders)]
            /\ commands' = commands
    /\ composed' = [composed EXCEPT ![a] = @ + 1]
    /\ seen' = [NoSeen EXCEPT !.op = "compose", !.key = a, !.outer = commanders,
                              !.before = [root |-> commands, sub |-> sub.commands]]
    /\ UNCHANGED <<flag, pc, last, context, scopes, read, console, ran, tried, limiter, manager>>

\* Commander.__call__ on the sub-commander
RegisterSub(def) ==
    /\ pc = "idle"
    /\ Len(sub.commands) < MaxOwn
    /\ sub' = [sub EXCEPT !.commands =
                   Append(@, Command(def.func, def.tokens, 0, def.is_abstract,
                                     def.inject, def.is_disabled, def.defaults))]
    /\ seen' = NoSeen
    /\ UNCHANGED <<commands, flag, pc, last, context, scopes, read, composed, console, ran, tried, limiter, manager>>

\* what each commander provides: the root an object under a key of its own or
\* under the reserved key, the sub-commander another object
ProvideCalls ==
    { [on |-> "root", key |-> "k", obj |-> "A", is_getter |-> FALSE],
      [on |-> "root", key |-> "k", obj |-> "A", is_getter |-> TRUE],
      [on |-> "root", key |-> StaticKey, obj |-> "A", is_getter |-> FALSE],
      [on |-> "sub", key |-> "k", obj |-> "B", is_getter |-> FALSE] }

\* commander.provide(key, obj, is_getter) called as a statement, as the runner
\* does: the _provide object is dropped, no scope is left to exit
ProvideOn(call) ==
    /\ pc = "idle"
    /\ IF call.on = "root"
       THEN context' = ProvideInit(context, call.key, call.obj, call.is_getter)
            /\ sub' = sub
       ELSE sub' = [sub EXCEPT !.context =
                       ProvideInit(@, call.key, call.obj, call.is_getter)]
            /\ context' = context
    /\ UNCHANGED <<commands, flag, pc, last, scopes, seen, read, composed, console, ran, tried, limiter, manager>>

----------------------------------------------------------------------------
(* The runner: one input line read, tokenized and dispatched *)

Blank == " "
CommentCharacter == "#"

\* the characters of an input line
Chars == {Blank, CommentCharacter, "a"}

Lines == SeqsUpTo(Chars, MaxLine)

\* str.strip()
RECURSIVE LStrip(_)
LStrip(line) ==
    IF line # <<>> /\ Head(line) = Blank THEN LStrip(Tail(line)) ELSE line

RECURSIVE RStrip(_)
RStrip(line) ==
    IF line # <<>> /\ line[Len(line)] = Blank
    THEN RStrip(SubSeq(line, 1, Len(line) - 1)) ELSE line

Strip(line) == RStrip(LStrip(line))

\* the word a run of characters spells.  TLA+ cannot concatenate strings: a
\* run of two or more characters is a word that differs from every
\* one-character word, and every keyword of the model has one character
WordOf(run) == IF Len(run) = 1 THEN run[1] ELSE "word"

\* shlex.split on a line without quotes: the runs between blanks
RECURSIVE SplitFrom(_, _)
SplitFrom(line, run) ==
    IF line = <<>> THEN (IF run = <<>> THEN <<>> ELSE <<WordOf(run)>>)
    ELSE IF Head(line) = Blank
    THEN (IF run = <<>> THEN <<>> ELSE <<WordOf(run)>>) \o SplitFrom(Tail(line), <<>>)
    ELSE SplitFrom(Tail(line), Append(run, Head(line)))

Split(line) == SplitFrom(line, <<>>)

\* mutant of Tokenize: the comment character is looked for before the line
\* is stripped
Tokenize_NoStrip(line) ==
    IF line # <<>> /\ Head(line) = CommentCharacter
    THEN [stopped |-> TRUE, args |-> <<>>]
    ELSE [stopped |-> FALSE, args |-> Split(Strip(line))]

\* tokenize_args, the wrapper of dispatch, on a str: `stopped` is
\* StopProcessingEvent raised, otherwise `args` go to dispatch
Tokenize(line) ==
    LET command == Strip(line)
    IN  IF command # <<>> /\ Head(command) = CommentCharacter
        THEN [stopped |-> TRUE, args |-> <<>>]
        ELSE [stopped |-> FALSE, args |-> Split(command)]

\* Console.send_data: the data is written and its status becomes the last status
SendData(con, result) ==
    [sent |-> Append(con.sent, [status |-> result.status, error |-> "type" \in DOMAIN result]),
     status |-> result.status]

RECURSIVE SendAll(_, _)
SendAll(con, results) ==
    IF results = <<>> THEN con ELSE SendAll(SendData(con, Head(results)), Tail(results))

\* the exception classes _process_line catches and sends: CommandError and
\* its subclasses
CommandErrors == {"CommandError", "InjectionError"}

\* nothing observed of a back-pressure handler: no RateLimitBackPressure made.
\* `interceptors` is CommandExecutionContext.interceptors of the line that is
\* processed; `index` is the enumerate() index of the next item of the wrapped
\* iterable; `forwarded` and `dropped` are the items __call__ has decided on,
\* each with the rate limit it was decided under; `written` are the writes of
\* results the runner tried and `reported` the writes of exceptions
NoLimiter ==
    [op |-> "none", rate_limit |-> 1, rate_modifier |-> 1, index |-> 0, before |-> 1,
     interceptors |-> <<>>, forwarded |-> <<>>, dropped |-> <<>>, signals |-> 0,
     written |-> <<>>, reported |-> <<>>]

\* RateLimitBackPressure.__init__: the object made
RateLimitBackPressure(rate_modifier) ==
    [NoLimiter EXCEPT !.op = "new", !.rate_modifier = rate_modifier]

\* the rate_modifier made of an int: lambda rate_limit: max(1, rate_limit + rate_modifier)
RateModifier(rate_limit, rate_modifier) ==
    IF rate_limit + rate_modifier > 1 THEN rate_limit + rate_modifier ELSE 1

\* mutant of Increase: the limit is set anew from 1
Increase_Resets(handler) ==
    [handler EXCEPT !.op = "increase", !.before = handler.rate_limit,
                    !.rate_limit = RateModifier(1, handler.rate_modifier),
                    !.signals = @ + 1]

\* RateLimitBackPressure.increase; it returns True
Increase(handler) ==
    [handler EXCEPT !.op = "increase", !.before = handler.rate_limit,
                    !.rate_limit = RateModifier(handler.rate_limit, handler.rate_modifier),
                    !.signals = @ + 1]

\* the exception types handed to handle: none, the back-pressure signal,
\* another CommandError
ExcTypes == {None, "ShouldThrottleException", "CommandError"}

\* BackPressure.handle(exc_type, ...): [handler, returned].  It returns
\* increase() for a ShouldThrottleException and None otherwise
HandleOf(handler, exc_type) ==
    IF exc_type # None /\ exc_type = "ShouldThrottleException"
    THEN [handler |-> Increase(handler), returned |-> TRUE]
    ELSE [handler |-> [handler EXCEPT !.op = "handle", !.before = handler.rate_limit],
          returned |-> FALSE]

\* RateLimitBackPressure.__call__, one turn of its loop: the next item of the
\* iterable is yielded if index % self.rate_limit == 0 and dropped otherwise
NextOf(handler) ==
    LET item == [index |-> handler.index, limit |-> handler.rate_limit]
    IN  IF handler.index % handler.rate_limit = 0
        THEN [handler EXCEPT !.op = "next", !.index = @ + 1,
                             !.forwarded = Append(@, item)]
        ELSE [handler EXCEPT !.op = "next", !.index = @ + 1,
                             !.dropped = Append(@, item)]

\* the modifiers a handler is made with: the default and others
RateModifiers == {0 - 1, 1, 2}

\* a RateLimitBackPressure is made
NewLimiter(rate_modifier) ==
    /\ pc = "idle"
    /\ limiter' = RateLimitBackPressure(rate_modifier)
    /\ UNCHANGED <<commands, flag, pc, last, context, scopes, seen, read, sub, composed,
                   console, ran, tried, manager>>

\* handle is called with the exception of a write, or with none
Handle(exc_type) ==
    /\ limiter.op # "none"
    /\ limiter.signals < MaxSignals
    /\ limiter' = HandleOf(limiter, exc_type).handler
    /\ UNCHANGED <<commands, flag, pc, last, context, scopes, seen, read, sub, composed,
                   console, ran, tried, manager>>

\* the consumer pulls, and __call__ takes the next item of its iterable
NextItem ==
    /\ limiter.op # "none"
    /\ limiter.index < MaxItems
    /\ limiter' = NextOf(limiter)
    /\ UNCHANGED <<commands, flag, pc, last, context, scopes, seen, read, sub, composed,
                   console, ran, tried, manager>>

\* the interface specifications given with --interface: the local terminal
\* (None), two serial lines and one whose query does not parse
InterfaceSpecs == {"local", "tty_a", "tty_b", "tty_bad"}

\* get_interface_handler raises InvalidInterfaceSpecificationError for these
InvalidSpecs == {"tty_bad"}

\* the signals the manager waits for, and Ctrl-C
ManagerSignals == {"SIGTERM", "SIGUSR1", "SIGHUP", "SIGINT"}

NoPid == 0

\* the process ids os.fork returns to the manager: one child per specification
Pids == 1..Cardinality(InterfaceSpecs)

NoInfo == [si_signo |-> "none", si_pid |-> NoPid]

NoCounts == [spec \in InterfaceSpecs |-> 0]

\* InterfaceManager.__init__: running_interface_processes = {}; the other
\* fields are the processes around it and what its last step did
NoManager ==
    [pc |-> "start", tracked |-> [spec \in InterfaceSpecs |-> NoPid], alive |-> {},
     forks |-> 0, info |-> NoInfo, reason |-> "none", op |-> "none", wanted |-> {},
     before |-> [spec \in InterfaceSpecs |-> NoPid], terminated |-> NoCounts,
     forked |-> NoCounts, printed |-> {}]

\* set(self.running_interface_processes)
RunningSet(m) == {spec \in InterfaceSpecs : m.tracked[spec] # NoPid}

\* the loop over obsolete_interfaces: pop the spec, os.kill(child_pid, SIGTERM)
RECURSIVE KillObsolete(_, _)
KillObsolete(m, obsolete) ==
    IF obsolete = {} THEN m
    ELSE LET spec == CHOOSE x \in obsolete : TRUE
         IN KillObsolete([m EXCEPT !.tracked[spec] = NoPid,
                                   !.alive = @ \ {m.tracked[spec]},
                                   !.terminated[spec] = @ + 1],
                         obsolete \ {spec})

\* the loop over interface_handlers: os.fork(), the parent memorizes the pid
RECURSIVE ForkNew(_, _)
ForkNew(m, specs) ==
    IF specs = {} THEN m
    ELSE LET spec == CHOOSE x \in specs : TRUE
         IN ForkNew([m EXCEPT !.tracked[spec] = m.forks + 1,
                              !.alive = @ \cup {m.forks + 1},
                              !.forks = @ + 1,
                              !.forked[spec] = @ + 1],
                    specs \ {spec})

\* run_and_stop_interfaces in the manager process; a specification that does
\* not parse ends the process with sys.exit(1) after the obsolete children
\* were killed and before any fork
RunAndStopInterfaces(m, wanted_interfaces, op) ==
    LET started == [m EXCEPT !.op = op, !.wanted = wanted_interfaces, !.before = m.tracked,
                             !.terminated = NoCounts, !.forked = NoCounts]
        running_set == RunningSet(m)
        killed == KillObsolete(started, running_set \ wanted_interfaces)
        new_wanted_interfaces == wanted_interfaces \ running_set
    IN IF new_wanted_interfaces \cap InvalidSpecs # {}
       THEN [killed EXCEPT !.pc = "exited", !.reason = "exit(1)"]
       ELSE ForkNew(killed, new_wanted_interfaces)

\* InterfaceManager.run up to the return of run_and_stop_interfaces
Run(wanted_interfaces) ==
    /\ manager.pc = "start"
    /\ \E m \in {RunAndStopInterfaces(manager, wanted_interfaces, "run")} :
          manager' = IF m.pc = "exited" THEN m ELSE [m EXCEPT !.pc = "install"]
    /\ UNCHANGED <<commands, flag, pc, last, context, scopes, seen, read, sub, composed,
                   console, ran, tried, limiter>>

\* signal.signal(one_signal, lambda *args: None) for the four signals, then
\* the first signal.sigwaitinfo
InstallHandlers ==
    /\ manager.pc = "install"
    /\ manager' = [manager EXCEPT !.pc = "wait", !.op = "install"]
    /\ UNCHANGED <<commands, flag, pc, last, context, scopes, seen, read, sub, composed,
                   console, ran, tried, limiter>>

\* a child process ends and the kernel sends SIGCHLD: sigwaitinfo returns it
\* when the manager waits; otherwise it is ignored (before the handlers are
\* installed) or taken by the empty handler, and no later sigwaitinfo sees it
ChildExits(pid) ==
    /\ manager.pc \in {"install", "wait", "handle"}
    /\ pid \in manager.alive
    /\ manager' = IF manager.pc = "wait"
                  THEN [manager EXCEPT !.alive = @ \ {pid}, !.pc = "handle", !.op = "signal",
                                       !.info = [si_signo |-> "SIGCHLD", si_pid |-> pid]]
                  ELSE [manager EXCEPT !.alive = @ \ {pid}]
    /\ UNCHANGED <<commands, flag, pc, last, context, scopes, seen, read, sub, composed,
                   console, ran, tried, limiter>>

\* a signal sent to the manager in its loop: received by sigwaitinfo; outside
\* of it the empty handler takes it, and Ctrl-C raises KeyboardInterrupt where
\* no except clause is
Signal(signo) ==
    /\ manager.pc \in {"wait", "handle"}
    /\ manager' = IF manager.pc = "wait"
                  THEN [manager EXCEPT !.pc = "handle", !.op = "signal",
                                       !.info = [si_signo |-> signo, si_pid |-> NoPid]]
                  ELSE IF signo = "SIGINT"
                  THEN [manager EXCEPT !.pc = "raised", !.op = "signal",
                                       !.reason = "KeyboardInterrupt"]
                  ELSE manager
    /\ UNCHANGED <<commands, flag, pc, last, context, scopes, seen, read, sub, composed,
                   console, ran, tried, limiter>>

\* the body of the while loop for the signal sigwaitinfo returned
HandleSignalOf(m) ==
    LET handled == [m EXCEPT !.op = "handle"]
    IN CASE m.info.si_signo = "SIGINT" ->
              [handled EXCEPT !.pc = "finish", !.reason = "KeyboardInterrupt"]
         [] m.info.si_signo = "SIGTERM" ->
              [handled EXCEPT !.pc = "finish", !.reason = "SIGTERM"]
         [] m.info.si_signo = "SIGCHLD" ->
              LET popped == [spec \in InterfaceSpecs |->
                                IF m.tracked[spec] = m.info.si_pid THEN NoPid
                                ELSE m.tracked[spec]]
              IN IF \A spec \in InterfaceSpecs : popped[spec] = NoPid
                 THEN [handled EXCEPT !.tracked = popped, !.pc = "finish",
                                      !.reason = "no children"]
                 ELSE [handled EXCEPT !.tracked = popped, !.pc = "wait"]
         [] m.info.si_signo = "SIGUSR1" ->
              [handled EXCEPT !.pc = "wait",
                              !.printed = {<<m.tracked[spec], spec>> : spec \in RunningSet(m)}]
         [] m.info.si_signo = "SIGHUP" ->
              [handled EXCEPT !.pc = "raised", !.reason = "NotImplementedError"]

HandleSignal ==
    /\ manager.pc = "handle"
    /\ manager' = HandleSignalOf(manager)
    /\ UNCHANGED <<commands, flag, pc, last, context, scopes, seen, read, sub, composed,
                   console, ran, tried, limiter>>

\* after the loop: self.run_and_stop_interfaces(set()); sys.exit(0)
Finish ==
    /\ manager.pc = "finish"
    /\ \E m \in {RunAndStopInterfaces(manager, {}, "finish")} :
          manager' = [m EXCEPT !.pc = "exited"]
    /\ UNCHANGED <<commands, flag, pc, last, context, scopes, seen, read, sub, composed,
                   console, ran, tried, limiter>>

NoRun == [op |-> "none", line |-> <<>>, before |-> [sent |-> <<>>, status |-> 0],
          event |-> None, returned |-> "True"]

\* the object bound for the time of one line
ExecutionContext == "CommandExecutionContext()"

\* what _process_line leaves behind: the console after the results and a
\* caught CommandError were sent, the provider map, the dispatch outcome
Processing(line, tokens, outcome, after, uncaught) ==
    /\ Len(after.sent) <= MaxSent
    /\ console' = after
    /\ last' = outcome
    /\ context' = IF line = <<>> THEN context
                  ELSE ProvideInit(context, "CommandExecutionContext", ExecutionContext, FALSE)
    /\ ran' = [op |-> "process_line", line |-> line, before |-> console,
               event |-> IF line # <<>> /\ tokens.stopped THEN "StopProcessingEvent" ELSE None,
               returned |-> IF uncaught THEN "raise" ELSE "True"]
    /\ UNCHANGED <<commands, flag, pc, scopes, seen, read, sub, composed, tried, limiter, manager>>

\* the dispatch of a tokenized line, NoCall if the line is empty or a comment
LineOutcome(line, tokens) ==
    IF line = <<>> \/ tokens.stopped THEN NoCall ELSE DispatchOutcome(tokens.args, FALSE)

Caught(outcome) == outcome.error # <<>> /\ outcome.error[1].type \in CommandErrors

\* mutant of ProcessLine: StopProcessingEvent is reported like a CommandError
ProcessLine_ReportsStop(line) ==
    /\ pc = "idle" /\ ran.returned # "False"
    /\ \E tokens \in {Tokenize(line)} :
       \E outcome \in {LineOutcome(line, tokens)} :
       \E delivered \in {SendAll(console, outcome.results)} :
       \E after \in {IF line # <<>> /\ tokens.stopped
                     THEN SendData(delivered, CommandError(<<>>, None))
                     ELSE IF Caught(outcome) THEN SendData(delivered, outcome.error[1])
                     ELSE delivered} :
          Processing(line, tokens, outcome, after, outcome.error # <<>> /\ ~Caught(outcome))

\* Runner._process_line for a line that input() returned, the results of the
\* dispatch drained into the console.  `returned` is "True" (the loop goes
\* on), "False" (the loop ends) or "raise" (an exception that is no
\* CommandError leaves _process_line; the failsafe wrapper of the loop
\* answers it with True).
ProcessLine(line) ==
    /\ pc = "idle" /\ ran.returned # "False"
    /\ \E tokens \in {Tokenize(line)} :
       \E outcome \in {LineOutcome(line, tokens)} :
       \E delivered \in {SendAll(console, outcome.results)} :
       \E after \in {IF Caught(outcome) THEN SendData(delivered, outcome.error[1])
                     ELSE delivered} :
          Processing(line, tokens, outcome, after, outcome.error # <<>> /\ ~Caught(outcome))

\* Runner._process_line when input() raises EOFError
EndOfFile(ignore_end_of_file) ==
    /\ pc = "idle" /\ ran.returned \notin {"False", "crash"}
    /\ ran' = [op |-> "eof", line |-> <<>>, before |-> console, event |-> None,
               returned |-> IF ignore_end_of_file THEN "True" ELSE "False"]
    /\ UNCHANGED <<commands, flag, pc, last, context, scopes, seen, read, sub, composed,
                   console, tried, limiter, manager>>

\* error.ShouldThrottleException()
ShouldThrottleException ==
    [type |-> "ShouldThrottleException", code |-> "KIEN.interface.data_overflow",
     status |-> 1,
     message |-> <<[kind |-> "unable to write data fast enough", labels |-> <<>>,
                    detail |-> [text |-> "", choices |-> {}], words |-> <<>>]>>,
     data |-> None]

\* the writes of one line that end in BlockingIOError, by the number of the
\* write: the results pulled and the report of an exception
BlockPatterns == [1..(MaxYield + 1) -> BOOLEAN]

\* Console.send_data on an output that may block: the last status is set
\* before the write, and the data is on the output only if the write went
\* through; `blocked` is ShouldThrottleException raised
TrySendData(con, result, blocked) ==
    IF blocked THEN [con EXCEPT !.status = result.status] ELSE SendData(con, result)

\* back_pressure's wrapper started: strategy() is made and
\* context.intercept appends it to the interceptors
Intercept(handler) ==
    [RateLimitBackPressure(1) EXCEPT !.interceptors = Append(handler.interceptors, "handler")]

\* the generator of a decorated command is exhausted: intercept removes the
\* handler from the interceptors; it does not when the body raised
AfterGenerator(handler, decorated, raised) ==
    IF decorated /\ ~raised THEN [handler EXCEPT !.interceptors = <<>>] ELSE handler

\* one turn of the loop `for result in commander.dispatch(line)` of
\* _process_line in the state `st` = [handler, console, k, writes, ended]:
\* `results` are the results the body yields, k of them were taken from it,
\* `writes` calls of send_data were made.  A decorated command hands the
\* runner only the items its handler forwards.  Inside `with context:` a
\* blocked write is given to the interceptors: a handler suppresses it and
\* the loop goes on, without one it leaves the loop (ended = "throttle")
PullOne(results, decorated, blocks, st) ==
    LET taken == IF decorated THEN NextOf(st.handler)
                 ELSE [st.handler EXCEPT !.index = @ + 1]
        forwarded == ~decorated \/ st.k % st.handler.rate_limit = 0
        blocked == blocks[st.writes + 1]
        sent == [taken EXCEPT !.written = Append(@, [index |-> st.k, blocked |-> blocked])]
    IN  IF ~forwarded
        THEN [st EXCEPT !.handler = taken, !.k = @ + 1]
        ELSE [st EXCEPT !.handler = IF blocked /\ sent.interceptors # <<>>
                                    THEN HandleOf(sent, "ShouldThrottleException").handler
                                    ELSE sent,
                        !.console = TrySendData(@, results[st.k + 1], blocked),
                        !.k = @ + 1, !.writes = @ + 1,
                        !.ended = IF blocked /\ sent.interceptors = <<>>
                                  THEN "throttle" ELSE @]

\* the loop to its end: the generator is exhausted or has raised
\* (ended = "end"), or a blocked write has left the loop.  Every state of the
\* loop is evaluated once
RECURSIVE PullAndSend(_, _, _, _)
PullAndSend(results, decorated, blocks, st) ==
    CHOOSE after \in
        { IF now.ended = "throttle" THEN now
          ELSE IF now.k = Len(results) THEN [now EXCEPT !.ended = "end"]
          ELSE PullAndSend(results, decorated, blocks,
                           PullOne(results, decorated, blocks, now)) : now \in {st} } : TRUE

\* _process_line past the loop: what ended the with block is looked at.
\* [handler, console, event, returned]: `event` is the exception that ended
\* the with block, `returned` what _process_line returns, or "raise" when an
\* exception leaves it
AfterLoop(outcome, decorated, blocks, pulled) ==
    LET raised == pulled.ended = "end" /\ outcome.error # <<>>
        exc == IF pulled.ended = "throttle" THEN <<ShouldThrottleException>>
               ELSE IF raised THEN outcome.error ELSE <<>>
        handler == AfterGenerator(pulled.handler, decorated, exc # <<>>)
        report_blocked == blocks[pulled.writes + 1]
    IN  IF exc = <<>>
        THEN [handler |-> handler, console |-> pulled.console, event |-> None,
              returned |-> "True"]
        ELSE IF exc[1].type \in CommandErrors \cup {"ShouldThrottleException"}
        THEN [handler |-> [handler EXCEPT !.reported =
                              Append(@, [type |-> exc[1].type, blocked |-> report_blocked])],
              console |-> TrySendData(pulled.console, exc[1], report_blocked),
              event |-> exc[1].type,
              returned |-> IF report_blocked THEN "raise" ELSE "True"]
        ELSE [handler |-> handler, console |-> pulled.console, event |-> exc[1].type,
              returned |-> IF exc[1].type = "ConsoleExitEvent" THEN "False" ELSE "raise"]

\* whether the dispatch called a command that @back_pressure decorates
Decorated(outcome) ==
    /\ outcome.executed # <<>>
    /\ commands[outcome.executed[1].command].func \in BackPressured

\* _process_line past the tokenizer: the results are pulled and sent, then
\* what ended the generator is looked at
RunLine(outcome, blocks) ==
    CHOOSE run \in
        { AfterLoop(outcome, decorated, blocks, pulled) :
            decorated \in {Decorated(outcome)},
            pulled \in { PullAndSend(outcome.results, Decorated(outcome), blocks,
                                     [handler |-> IF Decorated(outcome)
                                                  THEN Intercept(NoLimiter) ELSE NoLimiter,
                                      console |-> console, k |-> 0, writes |-> 0,
                                      ended |-> "pulling"]) } } : TRUE

\* Runner._process_line up to `with commander.provide(...)`: input() returns
\* a line; an empty line is done with (True is returned), for any other the
\* CommandExecutionContext of the line is provided
ReadLine(line) ==
    /\ pc = "idle" /\ ran.returned \notin {"False", "crash"}
    /\ Len(console.sent) <= MaxSent
    /\ context' = IF line = <<>> THEN context
                  ELSE ProvideInit(context, "CommandExecutionContext", ExecutionContext, FALSE)
    /\ pc' = IF line = <<>> THEN "idle" ELSE "dispatch"
    /\ last' = NoCall
    /\ limiter' = NoLimiter
    /\ ran' = [op |-> "process_line", line |-> line, before |-> console, event |-> None,
               returned |-> IF line = <<>> THEN "True" ELSE "pending"]
    /\ UNCHANGED <<commands, flag, scopes, seen, read, sub, composed, console, tried, manager>>

\* Runner._process_line from commander.dispatch(line) on, with an output
\* whose writes may block, and the answer of Runner.run to it: the line is
\* dispatched, every result pulled is sent before the next is pulled.
\* `returned` is "True", "False", "raise" (an exception left _process_line and
\* --failsafe answered it with True) or "crash" (it left Runner.run as well)
DispatchLine(blocks, failsafe) ==
    /\ pc = "dispatch"
    /\ pc' = "idle"
    /\ \E tokens \in {Tokenize(ran.line)} :
       \E outcome \in {LineOutcome(ran.line, tokens)} :
       \E run \in {RunLine(outcome, blocks)} :
          /\ last' = outcome
          /\ console' = run.console
          /\ limiter' = run.handler
          /\ ran' = [ran EXCEPT
                       !.event = IF tokens.stopped THEN "StopProcessingEvent" ELSE run.event,
                       !.returned = IF run.returned = "raise" /\ ~failsafe THEN "crash"
                                    ELSE run.returned]
    /\ UNCHANGED <<commands, flag, context, scopes, seen, read, sub, composed, tried, manager>>

\* the keyword of each command of the loop's commander, one character each
StreamDef(func, word) ==
    [Def(func, <<keyword(word, {})>>, FALSE, "False")
       EXCEPT !.inject =
          IF func \in BackPressured
          THEN <<Injection("CommandExecutionContext", "__keen_command_execution_context__",
                           FALSE, Undefined)>>
          ELSE <<>>]

\* @back_pressure commands that stream or fail, a command that streams
\* without it, quit, a command whose body raises CommandError and one whose
\* injection nothing provides
LoopDefs ==
    { StreamDef("stream", "s"), StreamDef("flood", "p"), StreamDef("sfail", "e"),
      StreamDef("quit", "q"), StreamDef("failing", "f"),
      [StreamDef("need", "n") EXCEPT !.inject = <<Injection("k", None, FALSE, Undefined)>>] }

\* the lines typed: empty, blank, a comment, each keyword and another word
LoopLines ==
    {<<>>, <<Blank>>, <<CommentCharacter>>, <<"u">>}
    \cup {<<def.tokens[1].value>> : def \in LoopDefs}

\* the commands of the runner's commander
RunnerDefs == {def \in Defs : def.func \in {"echo", "pick", "noop"}}

----------------------------------------------------------------------------
(* Specifications *)

Init ==
    /\ commands = <<>>
    /\ flag = FALSE
    /\ pc = "idle"
    /\ last = NoCall
    /\ context = EmptyDict
    /\ scopes = <<>>
    /\ seen = NoSeen
    /\ read = NoRead
    /\ sub = [commands |-> <<>>, context |-> EmptyDict]
    /\ composed = [c \in Commanders |-> 0]
    /\ console = [sent |-> <<>>, status |-> 0]
    /\ ran = NoRun
    /\ tried = NoTry
    /\ limiter = NoLimiter
    /\ manager = NoManager

\* registration and dispatch
Next ==
    \/ \E def \in Defs : \E parent \in 0..Len(commands) : Register(def, parent)
    \/ SetFlag
    \/ \E args \in ArgLists : \E simulate \in BOOLEAN : Dispatch(args, simulate)
    \/ Return

Spec == Init /\ [][Next]_vars

\* registration, mount and reads of the parent chains
NextMount ==
    \/ \E def \in ChainDefs : \E parent \in 0..Len(commands) :
          RegisterUpTo(MaxChain, def, parent)
    \/ \E i \in 1..Len(commands) : \E parent \in 0..Len(commands) : Mount(i, parent)
    \/ \E i \in 1..Len(commands) : ReadChain(i)

SpecMount == Init /\ [][NextMount]_vars

\* the provider map
NextProvide ==
    \/ \E key \in Keys : \E obj \in Objs : \E is_getter \in BOOLEAN :
          Provide(key, obj, is_getter)
    \/ \E n \in 1..Len(scopes) : ExitScope(n)
    \/ \E key \in Keys : RequireKey(key)

SpecProvide == Init /\ [][NextProvide]_vars

\* commanders that register, provide, compose; lines dispatched through the root
NextCompose ==
    \/ \E def \in InjectDefs : RegisterUpTo(MaxOwn, def, 0)
    \/ \E def \in SubDefs : RegisterSub(def)
    \/ \E call \in ProvideCalls : ProvideOn(call)
    \/ \E a \in Commanders : \E commanders \in ComposeArgs[a] : Compose(a, commanders)
    \/ \E word \in Words, simulate \in BOOLEAN : Dispatch(<<word>>, simulate)
    \/ Return

SpecCompose == Init /\ [][NextCompose]_vars

\* the commands of the lines that end in a suggestion: a keyword command, a
\* command with a greedy rest and one whose second variable is validated
SuggestDefs == {def \in Defs : def.func \in {"anything", "echo", "pick"}}

\* lines dispatched to be executed, on a registry of these commands
NextSuggest ==
    \/ \E def \in SuggestDefs : \E parent \in 0..Len(commands) : Register(def, parent)
    \/ SetFlag
    \/ \E args \in ArgLists : Dispatch(args, FALSE)
    \/ Return

SpecSuggest == Init /\ [][NextSuggest]_vars

\* a variable that matching accepts whatever its value
v_free == var("mode", Undefined, FALSE, None, FALSE, {})

\* commands that fail after they were resolved: in the validate decorator of
\* the function, in its body, and (set) when to_bool transforms the argument
ValidateDefs ==
    { Def("checked", <<kw_a, v_free>>, FALSE, "False"),
      Def("strict", <<v_free>>, FALSE, "False") }
    \cup {def \in Defs : def.func = "set"}

\* lines dispatched to be executed, on a registry of these commands
NextValidate ==
    \/ \E def \in ValidateDefs : \E parent \in 0..Len(commands) : Register(def, parent)
    \/ \E args \in ArgLists : Dispatch(args, FALSE)
    \/ Return

SpecValidate == Init /\ [][NextValidate]_vars

\* validators composed with | and & and tried on values
NextValidators ==
    \/ \E simple \in SimpleValidators : \E side \in {"a", "b"} : Take(simple, side)
    \/ \E kind \in {"or", "and"} : \E side \in {"a", "b"} : Combine(kind, side)
    \/ \E kind \in {"or", "and"} : \E value \in Values : Try(kind, value)

SpecValidators == Init /\ [][NextValidators]_vars

\* examples/say-some-name.py: @command('say', is_abstract=True) def say_base
\* and @command('my', 'name', var('name', is_optional=True), parent=say_base)
\* @command.inject(names='members') def say_my_name.  command.inject resolves
\* 'members' through the requestor of the commander the command is defined
\* on, and the signal hands the request to the root that provides it; the
\* model registers the command on the root with this injection
say_base == Def("say_base", <<keyword("say", {})>>, TRUE, "False")

say_my_name ==
    [Def("say_my_name",
         <<keyword("my", {}), keyword("name", {}), var("name", Undefined, TRUE, None, FALSE, {})>>,
         FALSE, "False")
       EXCEPT !.inject = <<Injection("members", "names", FALSE, Undefined)>>]

\* the lines typed: 'say my name', 'say my name <value>', 'say my'
ExampleLines ==
    {<<"say", "my">>, <<"say", "my", "name">>}
    \cup {<<"say", "my", "name", value>> : value \in Values}

\* the example's commander: the two commands are registered, the members are
\* provided, lines of the example are dispatched
NextExample ==
    \/ \E def \in {say_base, say_my_name} : \E parent \in 0..Len(commands) :
          Register(def, parent)
    \/ \E obj \in Objs : pc = "idle" /\ Provide("members", obj, FALSE)
    \/ \E args \in ExampleLines : Dispatch(args, FALSE)
    \/ Return

SpecExample == Init /\ [][NextExample]_vars

\* commands that end in a CommandError of their own: raised by the body after
\* a result, or by the resolution of an injection nothing provides; and one
\* whose body raises ValidationError
FailDefs ==
    { Def("failing", <<kw_a>>, FALSE, "False"),
      Def("strict", <<v_free>>, FALSE, "False"),
      [Def("need", <<kw_a_or_on>>, FALSE, "False")
         EXCEPT !.inject = <<Injection("k", None, FALSE, Undefined)>>],
      [Def("after", <<keyword("on", {}), v_free>>, FALSE, "False")
         EXCEPT !.inject = <<Injection("members", "names", FALSE, Undefined),
                             Injection("k", None, FALSE, Undefined)>>] }

\* lines dispatched on a registry of these commands, 'members' or 'k' provided
\* or not
NextFail ==
    \/ \E def \in FailDefs : Register(def, 0)
    \/ \E key \in {"members", "k"} : pc = "idle" /\ Provide(key, "A", FALSE)
    \/ \E args \in ArgLists : Dispatch(args, FALSE)
    \/ Return

SpecFail == Init /\ [][NextFail]_vars

\* a back-pressure handler: signals and items in any order
NextLimiter ==
    \/ \E rate_modifier \in RateModifiers : NewLimiter(rate_modifier)
    \/ \E exc_type \in ExcTypes : Handle(exc_type)
    \/ NextItem

SpecLimiter == Init /\ [][NextLimiter]_vars

\* the runner's loop on an output that may block
NextLoop ==
    \/ \E def \in LoopDefs : RegisterUpTo(MaxOwn, def, 0)
    \/ \E line \in LoopLines : ReadLine(line)
    \/ \E blocks \in BlockPatterns : \E failsafe \in BOOLEAN : DispatchLine(blocks, failsafe)
    \/ \E ignore_end_of_file \in BOOLEAN : EndOfFile(ignore_end_of_file)

SpecLoop == Init /\ [][NextLoop]_vars

\* the interface manager process, its children and the signals sent to it
NextManager ==
    \/ \E wanted_interfaces \in SUBSET InterfaceSpecs \ {{}} : Run(wanted_interfaces)
    \/ InstallHandlers
    \/ \E pid \in Pids : ChildExits(pid)
    \/ \E signo \in ManagerSignals : Signal(signo)
    \/ HandleSignal
    \/ Finish

SpecManager == Init /\ [][NextManager]_vars

\* the runner's loop over the lines it reads
NextRunner ==
    \/ \E def \in RunnerDefs : RegisterUpTo(MaxOwn, def, 0)
    \/ \E line \in Lines : ProcessLine(line)
    \/ \E ignore_end_of_file \in BOOLEAN : EndOfFile(ignore_end_of_file)

SpecRunner == Init /\ [][NextRunner]_vars

----------------------------------------------------------------------------
(* Vocabulary of the properties.  These definitions restate, from the       *)
(* registry and the input alone, what the properties say about an outcome.  *)

Dispatched == last.op = "dispatch"
Executing == Dispatched /\ ~last.simulate

\* the chain of command k read root first, by walking the parent links
RECURSIVE Ancestry(_, _)
Ancestry(k, fuel) ==
    IF fuel = 0 \/ commands[k].parent = 0 THEN <<k>>
    ELSE Append(Ancestry(commands[k].parent, fuel - 1), k)

RECURSIVE Flatten(_, _)
Flatten(chain, field) ==
    IF chain = <<>> THEN <<>>
    ELSE commands[Head(chain)][field] \o Flatten(Tail(chain), field)

Chain(k) == Flatten(Ancestry(k, Len(commands)), "tokens")

\* a command that is abstract or disabled when the line is dispatched
NotExecutable(k) ==
    \/ commands[k].is_abstract
    \/ commands[k].is_disabled = "True"
    \/ commands[k].is_disabled = "pred" /\ flag

\* the token argument j of the input meets in `tokens`: <<>> if there is none
TokenAt(tokens, j) ==
    IF j <= Len(tokens) THEN <<tokens[j]>>
    ELSE IF tokens # <<>> /\ tokens[Len(tokens)].greedy THEN <<tokens[Len(tokens)]>>
    ELSE <<>>

IsLiteral(token) == token.value # Undefined
LiteralAccepts(token, arg) == arg = token.value \/ arg \in token.aliases

\* a named variable without a literal value fails validation on arg
FailsValidation(token, arg) ==
    /\ token.is_variable /\ ~IsLiteral(token) /\ token.name # None
    /\ \/ token.transform = "Upper" /\ arg \notin UpperValid
       \/ token.choices # {} /\ arg \notin token.choices

\* argument j makes the command structurally wrong for the input
InvalidAt(tokens, args, j) ==
    \/ TokenAt(tokens, j) = <<>>
    \/ /\ TokenAt(tokens, j) # <<>>
       /\ IsLiteral(TokenAt(tokens, j)[1])
       /\ ~LiteralAccepts(TokenAt(tokens, j)[1], args[j])

NoInvalidCondition(tokens, args) == \A j \in 1..Len(args) : ~InvalidAt(tokens, args, j)

\* the arguments that fail validation, in input order, as TokenMismatch records
FailedIndices(tokens, args) ==
    SelectSeq([j \in 1..Len(args) |-> j],
              LAMBDA j : /\ TokenAt(tokens, j) # <<>>
                         /\ FailsValidation(TokenAt(tokens, j)[1], args[j]))

ExpectedMismatches(tokens, args) ==
    LET failed == FailedIndices(tokens, args)
    IN  [n \in 1..Len(failed) |->
            [token |-> TokenAt(tokens, failed[n])[1],
             exception |-> TokenMatches(TokenAt(tokens, failed[n])[1], args[failed[n]]).exc[1],
             value |-> args[failed[n]]]]

\* the positions after the input whose token is required
MissingPositions(tokens, args) ==
    {p \in (Len(args) + 1)..Len(tokens) : ~tokens[p].is_optional}

Min(S) == CHOOSE x \in S : \A y \in S : x <= y

\* the executable commands for which the input is an Exact / a Partial match
ExactFor(args) ==
    {k \in 1..Len(commands) :
        /\ ~NotExecutable(k)
        /\ NoInvalidCondition(Chain(k), args)
        /\ MissingPositions(Chain(k), args) = {}
        /\ FailedIndices(Chain(k), args) = <<>>}

PartialFor(args) ==
    {k \in 1..Len(commands) :
        /\ ~NotExecutable(k)
        /\ NoInvalidCondition(Chain(k), args)
        /\ \/ MissingPositions(Chain(k), args) # {}
           \/ FailedIndices(Chain(k), args) # <<>>}

MatchesOfType(type) ==
    {last.matches[n].command : n \in {m \in 1..Len(last.matches) : last.matches[m].type = type}}

----------------------------------------------------------------------------
(* C1 *)

\* C1: dispatch (simulate=false) runs a command body only when exactly one
\* registered executable command is Exact for the input, and then it runs that
\* command; when no command is Exact it runs no body and raises CommandError
\* with code INVALID_COMMAND whose message is the suggestion text.
C1_DispatchRunsUniqueExact ==
    Executing =>
        /\ last.executed # <<>> =>
              /\ Cardinality(ExactFor(last.args)) = 1
              /\ last.executed[1].command \in ExactFor(last.args)
        /\ ExactFor(last.args) = {} =>
              /\ last.executed = <<>>
              /\ last.results = <<>>
              /\ Len(last.error) = 1
              /\ last.error[1].type = "CommandError"
              /\ last.error[1].code = "INVALID_COMMAND"
              /\ last.error[1].message = Suggestion(ResolveCommands(last.args), last.args)

\* a line that is Exact for one of two executable commands ran that command
C1_Witness ==
    /\ Executing
    /\ last.executed # <<>>
    /\ Cardinality({k \in 1..Len(commands) : ~NotExecutable(k)}) = 2
    /\ PartialFor(last.args) # {}

----------------------------------------------------------------------------
(* C2 *)

AmbiguousCommandError ==
    [type |-> "AmbiguousCommandError", code |-> None, status |-> 1, message |-> <<>>]

\* C2: when two or more registered executable commands are Exact for the same
\* input, dispatch (simulate=false) raises AmbiguousCommandError and runs
\* neither; when the input is only Partial for them and no command is Exact,
\* AmbiguousCommandError is not raised and the outcome is the CommandError that
\* carries the suggestion.
C2_AmbiguityOnlyForExact ==
    Executing =>
        /\ Cardinality(ExactFor(last.args)) >= 2 =>
              /\ last.error = <<AmbiguousCommandError>>
              /\ last.executed = <<>>
              /\ last.results = <<>>
        /\ (ExactFor(last.args) = {} /\ Cardinality(PartialFor(last.args)) >= 2) =>
              /\ last.executed = <<>>
              /\ last.error = <<CommandError(Suggestion(ResolveCommands(last.args), last.args),
                                             "INVALID_COMMAND")>>

\* two commands with the same token chain met a line that is Exact for both
C2_Witness ==
    /\ Executing
    /\ Len(commands) = 2
    /\ Chain(1) = Chain(2) /\ Chain(1) # <<>>
    /\ ExactFor(last.args) = {1, 2}
    /\ last.error = <<AmbiguousCommandError>>

----------------------------------------------------------------------------
(* C3 *)

\* C3: for an executable command and args that trigger no Invalid condition,
\* match returns Partial with the first non-optional token of
\* all_tokens[len(args):] and all collected mismatches if there is such a token;
\* otherwise Partial without a token if a mismatch was collected; otherwise
\* Exact.  One required variable and no argument give Partial with that
\* variable and no mismatch.
C3_MatchClassification ==
    Dispatched =>
        \A n \in 1..Len(last.matches) :
            LET m == last.matches[n]
                tokens == Chain(m.command)
                missing == MissingPositions(tokens, last.args)
                failed == ExpectedMismatches(tokens, last.args)
            IN  NoInvalidCondition(tokens, last.args) =>
                    IF missing # {}
                    THEN /\ m.type = "partial"
                         /\ m.token = <<tokens[Min(missing)]>>
                         /\ m.token_mismatches = failed
                    ELSE IF Len(failed) > 0
                    THEN /\ m.type = "partial"
                         /\ m.token = <<>>
                         /\ m.token_mismatches = failed
                    ELSE m.type = "exact"

\* a command with two required variables got one argument, which failed its
\* validation: Partial with the second variable and one mismatch
C3_Witness ==
    /\ Dispatched
    /\ \E n \in 1..Len(last.matches) :
          LET m == last.matches[n]
              tokens == Chain(m.command)
          IN  /\ Len(tokens) = 2 /\ Len(last.args) = 1
              /\ tokens[1].is_variable /\ tokens[2].is_variable
              /\ m.type = "partial"
              /\ m.token = <<tokens[2]>>
              /\ Len(m.token_mismatches) = 1

----------------------------------------------------------------------------
(* C4 *)

\* C4: match returns Invalid, and does not raise, whenever some argument has no
\* token (it is past the end of the chain and the last token is not greedy, or
\* the chain is empty) or meets a literal token that differs from it and from
\* all its aliases, also when validation mismatches were recorded for earlier
\* arguments.
C4_InvalidWhenStructurallyWrong ==
    Dispatched =>
        /\ \A n \in 1..Len(last.error) : last.error[n].type # "RecursionError"
        /\ \A n \in 1..Len(last.matches) :
              LET m == last.matches[n]
              IN  (\E j \in 1..Len(last.args) : InvalidAt(Chain(m.command), last.args, j))
                      => m.type = "invalid"

\* an argument failed a variable's validation and a later argument had no
\* token or met a literal that differs: the command is Invalid
C4_Witness ==
    /\ Dispatched
    /\ \E n \in 1..Len(last.matches) :
          LET m == last.matches[n]
              tokens == Chain(m.command)
          IN  /\ m.type = "invalid"
              /\ \E j \in 1..Len(last.args) :
                    /\ InvalidAt(tokens, last.args, j)
                    /\ \E e \in 1..(j - 1) :
                          /\ TokenAt(tokens, e) # <<>>
                          /\ FailsValidation(TokenAt(tokens, e)[1], last.args[e])
                    /\ \A e \in 1..(j - 1) : ~InvalidAt(tokens, last.args, e)

----------------------------------------------------------------------------
(* C5 *)

\* the arguments the scan of match reaches: no earlier argument made the
\* command Invalid
Scanned(tokens, args) ==
    {j \in 1..Len(args) :
        /\ TokenAt(tokens, j) # <<>>
        /\ \A e \in 1..(j - 1) : ~InvalidAt(tokens, args, e)}

\* every failed validation is recorded once, in argument order, and a command
\* whose only defects are failed validations is Partial
MismatchesRecorded(m, tokens, args) ==
    /\ m.type # "invalid" => m.token_mismatches = ExpectedMismatches(tokens, args)
    /\ (NoInvalidCondition(tokens, args) /\ FailedIndices(tokens, args) # <<>>)
          => m.type = "partial"

\* C5 as claimed: matches() of a variable token never returns false (it
\* returns true or raises ValidationError, and a value outside declared choices
\* always raises); every failure is recorded as one TokenMismatch in argument
\* order and the command is Partial, not Invalid.
C5_VariableNeverFalse ==
    Dispatched =>
        \A n \in 1..Len(last.matches) :
            LET m == last.matches[n]
                tokens == Chain(m.command)
            IN  /\ \A j \in Scanned(tokens, last.args) :
                      LET token == TokenAt(tokens, j)[1]
                          r == TokenMatches(token, last.args[j])
                      IN  token.is_variable =>
                              /\ r.ret # "False"
                              /\ (token.choices # {} /\ last.args[j] \notin token.choices)
                                    => r.ret = "raise"
                /\ MismatchesRecorded(m, tokens, last.args)

\* C5, amended: matches() of a named variable token that has no literal value
\* never returns false: it returns true or raises ValidationError, the
\* transform's validate hook first and then the choices check, so a value
\* outside declared choices always raises.  Every such failure is recorded as
\* one TokenMismatch (token, error, raw argument) in argument order, the scan
\* goes on, and a command whose only defects are such failures is Partial.
C5_ValidatedVariableNeverFalse ==
    Dispatched =>
        \A n \in 1..Len(last.matches) :
            LET m == last.matches[n]
                tokens == Chain(m.command)
            IN  /\ \A j \in Scanned(tokens, last.args) :
                      LET token == TokenAt(tokens, j)[1]
                          r == TokenMatches(token, last.args[j])
                      IN  (token.is_variable /\ ~IsLiteral(token) /\ token.name # None) =>
                              /\ r.ret # "False"
                              /\ (token.choices # {} /\ last.args[j] \notin token.choices)
                                    => r.ret = "raise"
                              /\ (token.transform = "Upper" /\ last.args[j] \notin UpperValid)
                                    => r = [ret |-> "raise", exc |-> <<UpperError>>]
                              /\ r.ret = "raise" <=> FailsValidation(token, last.args[j])
                /\ MismatchesRecorded(m, tokens, last.args)

\* two arguments failed the validation of two variables: Partial with the two
\* mismatches in argument order
C5_Witness ==
    /\ Dispatched
    /\ \E n \in 1..Len(last.matches) :
          LET m == last.matches[n]
          IN  /\ m.type = "partial"
              /\ Len(m.token_mismatches) = 2
              /\ m.token_mismatches[1].token # m.token_mismatches[2].token
              /\ m.token_mismatches[1].value = last.args[1]
              /\ m.token_mismatches[2].value = last.args[2]

----------------------------------------------------------------------------
(* C6 *)

\* C6: a command that is abstract, or disabled when the line is dispatched,
\* gets no Partial or Exact match, its body is not run by dispatch, and it is
\* not among the suggestion candidates, for any input.
C6_NotExecutableNeverMatched ==
    Dispatched =>
        \A k \in 1..Len(commands) :
            NotExecutable(k) =>
                /\ k \notin MatchesOfType("partial") \cup MatchesOfType("exact")
                /\ \A n \in 1..Len(last.executed) : last.executed[n].command # k
                /\ LET candidates ==
                           FindSuggestableMatches(ResolveCommands(last.args), last.args)
                   IN  \A n \in 1..Len(candidates) : candidates[n].command # k

\* a disabled and an abstract command whose token chain is the input itself
\* were passed over: the line ends in INVALID_COMMAND
C6_Witness ==
    /\ Executing
    /\ last.args # <<>>
    /\ \E k \in 1..Len(commands) :
          /\ commands[k].is_abstract
          /\ NoInvalidCondition(Chain(k), last.args)
          /\ MissingPositions(Chain(k), last.args) = {}
    /\ \E k \in 1..Len(commands) :
          /\ ~commands[k].is_abstract /\ NotExecutable(k)
          /\ commands[k].is_disabled = "pred"
          /\ NoInvalidCondition(Chain(k), last.args)
          /\ MissingPositions(Chain(k), last.args) = {}
    /\ last.executed = <<>>
    /\ Len(last.error) = 1 /\ last.error[1].code = "INVALID_COMMAND"

----------------------------------------------------------------------------
(* C7 *)

\* the last token of the chain is a greedy variable
GreedyLast(tokens) ==
    /\ tokens # <<>>
    /\ tokens[Len(tokens)].greedy /\ tokens[Len(tokens)].is_variable
    /\ ~IsLiteral(tokens[Len(tokens)]) /\ tokens[Len(tokens)].name # None

\* no earlier token of the chain is greedy or carries the last token's name
OnlyGreedy(tokens) ==
    \A p \in 1..(Len(tokens) - 1) :
        ~tokens[p].greedy /\ tokens[p].name # tokens[Len(tokens)].name

\* the arguments at or beyond the last chain position, each transformed alone
GreedyValue(tokens, args) ==
    LET token == tokens[Len(tokens)]
        rest == SubSeq(args, Len(tokens), Len(args))
    IN  List([n \in 1..Len(rest) |->
                 IF token.transform = None THEN rest[n]
                 ELSE transform_value(token.transform, rest[n]).value])

\* every argument at or beyond the last chain position is matched against the
\* greedy token: surplus arguments that it accepts leave the command Exact
SurplusMatched(m, tokens, args) ==
    (/\ Len(args) >= Len(tokens)
     /\ \A j \in 1..Len(args) :
           LET token == IF j < Len(tokens) THEN tokens[j] ELSE tokens[Len(tokens)]
           IN  IF IsLiteral(token) THEN LiteralAccepts(token, args[j])
               ELSE ~FailsValidation(token, args[j]))
        => m.type = "exact"

\* C7 as claimed: with a greedy variable as the last token, every argument at or
\* beyond the last chain position is matched against it, and on execution the
\* variable is bound to one sequence of all remaining arguments in input
\* order, the transform applied to each element.
C7_GreedyBindsRemaining ==
    Executing =>
        /\ \A n \in 1..Len(last.matches) :
              GreedyLast(Chain(last.matches[n].command)) =>
                  SurplusMatched(last.matches[n], Chain(last.matches[n].command), last.args)
        /\ \A n \in 1..Len(last.executed) :
              LET tokens == Chain(last.executed[n].command)
                  kwargs == last.executed[n].kwargs
                  name == tokens[Len(tokens)].name
              IN  GreedyLast(tokens) =>
                      /\ name \in DOMAIN kwargs
                      /\ kwargs[name] = GreedyValue(tokens, last.args)

\* C7, amended: every argument at or beyond the last chain position is matched
\* against the greedy last token; when no earlier token of the chain is greedy
\* or shares its name, the executed command has the variable bound to the
\* sequence of those arguments, each transformed alone, if there is at least
\* one, and has it left unbound if the input ends before the greedy token.
C7_GreedyBindsRemainingIfAny ==
    Executing =>
        /\ \A n \in 1..Len(last.matches) :
              GreedyLast(Chain(last.matches[n].command)) =>
                  SurplusMatched(last.matches[n], Chain(last.matches[n].command), last.args)
        /\ \A n \in 1..Len(last.executed) :
              LET tokens == Chain(last.executed[n].command)
                  kwargs == last.executed[n].kwargs
                  name == tokens[Len(tokens)].name
              IN  (GreedyLast(tokens) /\ OnlyGreedy(tokens)) =>
                      IF Len(last.args) >= Len(tokens)
                      THEN /\ name \in DOMAIN kwargs
                           /\ kwargs[name] = GreedyValue(tokens, last.args)
                      ELSE name \notin DOMAIN kwargs

\* a command whose chain is one greedy variable ran on three arguments: the
\* variable holds the three of them
C7_Witness ==
    /\ Executing
    /\ \E n \in 1..Len(last.executed) :
          LET tokens == Chain(last.executed[n].command)
          IN  /\ GreedyLast(tokens) /\ OnlyGreedy(tokens)
              /\ Len(last.args) = Len(tokens) + 2
              /\ last.executed[n].kwargs[tokens[Len(tokens)].name].list
              /\ Len(last.executed[n].kwargs[tokens[Len(tokens)].name].items) = 3

----------------------------------------------------------------------------
(* C8 *)

\* the parent links of command k end at a command without parent
RECURSIVE ReachesRoot(_, _)
ReachesRoot(k, fuel) ==
    IF commands[k].parent = 0 THEN TRUE
    ELSE IF fuel = 0 THEN FALSE
    ELSE ReachesRoot(commands[k].parent, fuel - 1)

Rooted(k) == ReachesRoot(k, Len(commands))

\* what a read of all_tokens / all_injections of command k has to return: the
\* chain root first, which is the parent's chain followed by the command's own
ReadIsParentThenOwn(k) ==
    LET parent == commands[k].parent
        ancestry == Ancestry(k, Len(commands))
    IN  /\ ~read.tokens.raised /\ ~read.injections.raised
        /\ read.tokens.value = Flatten(ancestry, "tokens")
        /\ read.injections.value = Flatten(ancestry, "inject")
        /\ parent # 0 =>
              /\ read.tokens.value = AllTokens(parent).value \o commands[k].tokens
              /\ read.injections.value = AllInjections(parent).value \o commands[k].inject

\* C8 as claimed: for every command at any depth of parenting, all_tokens is
\* the parent's all_tokens followed by the command's own tokens (root first),
\* all_injections likewise, and after mount(p) the same holds for the new
\* parent p on the next read.
C8_ChainIsParentThenOwn ==
    read.op = "read" => ReadIsParentThenOwn(read.command)

\* C8, amended: the same, for every command whose parent links end at a root
\* command, that is when no mount has closed a cycle of parents through it.
C8_RootedChainIsParentThenOwn ==
    (read.op = "read" /\ Rooted(read.command)) => ReadIsParentThenOwn(read.command)

\* a command two levels below its root was read right after it was mounted
C8_Witness ==
    /\ read.op = "read" /\ read.after_mount
    /\ Rooted(read.command)
    /\ Len(Ancestry(read.command, Len(commands))) = 3
    /\ Len(read.tokens.value) >= 4
    /\ Len(read.injections.value) = 3

----------------------------------------------------------------------------
(* C9 *)

\* C9: after provide(k, A) and a nested provide(k, B) inside A's scope, the
\* exit of the inner scope restores A: a require of k after the inner exit
\* and before the outer exit yields A.
C9_InnerExitRestoresOuter ==
    (seen.op = "exit" /\ seen.top /\ seen.outer # <<>>) =>
        LET A == seen.outer[Len(seen.outer)].obj
        IN  /\ seen.key \in DOMAIN context
            /\ context[seen.key].obj = A
            /\ Require(seen.key) # <<>>
            /\ Head(Require(seen.key)) \in {A, Called[A]}

----------------------------------------------------------------------------
(* C10 *)

\* C10: the exit of a provide scope made for key k with value V removes the
\* binding of k only if the value bound to k is that V; if k was re-provided
\* with another value, or k is absent, the exit leaves the provider map as it
\* was; bindings of other keys are never changed by the exit.
C10_ExitRemovesOnlyOwnValue ==
    seen.op = "exit" =>
        /\ IF seen.key \in DOMAIN seen.before /\ seen.before[seen.key].obj = seen.obj
           THEN /\ seen.key \notin DOMAIN context
                /\ DOMAIN context = (DOMAIN seen.before) \ {seen.key}
           ELSE context = seen.before
        /\ \A key \in Keys \ {seen.key} :
              /\ key \in DOMAIN context <=> key \in DOMAIN seen.before
              /\ key \in DOMAIN context => context[key] = seen.before[key]

\* a scope ended after its key had been provided again with another value,
\* while another key was bound: the map is as it was
C10_Witness ==
    /\ seen.op = "exit"
    /\ seen.key \in DOMAIN seen.before
    /\ seen.before[seen.key].obj # seen.obj
    /\ DOMAIN seen.before = Keys
    /\ context = seen.before

----------------------------------------------------------------------------
(* C11 *)

\* the value a commander has been provided for a key, as a requestor yields
\* it: a getter is called, a plain value is returned as stored
ProvidedBy(c, key) ==
    IF key \in DOMAIN ContextOf(c)
    THEN <<IF ContextOf(c)[key].is_getter THEN Called[ContextOf(c)[key].obj]
           ELSE ContextOf(c)[key].obj>>
    ELSE <<>>

\* what the root's requestor yields before anything of the broadcast: the
\* command collection for the reserved key, then the value provided directly
StaticThenProvided(key) ==
    (IF key = StaticKey THEN <<"<commands>">> ELSE <<>>) \o ProvidedBy("root", key)

\* C11: the requestor yields the static command collection for the reserved
\* key, then the directly provided value (a getter called anew), then the
\* values of the composition broadcast; an injection with collect=false binds
\* the first yielded value, one with collect=true binds the whole sequence in
\* that order.
C11_RequestorOrder ==
    Executing =>
        \A n \in 1..Len(last.injected) :
            LET r == last.injected[n]
                first == StaticThenProvided(r.injection.key)
            IN  IF r.injection.collect
                THEN /\ ~r.raised
                     /\ r.value.list
                     /\ Len(r.value.items) >= Len(first)
                     /\ SubSeq(r.value.items, 1, Len(first)) = first
                ELSE first # <<>> => (~r.raised /\ r.value = Scalar(Head(first)))

----------------------------------------------------------------------------
(* C12 *)

\* nothing is there to yield for a key: it is not the reserved key, the root
\* was not provided it, and no requestor reached by the broadcast was either
NothingToYield(key) ==
    /\ key # StaticKey
    /\ ProvidedBy("root", key) = <<>>
    /\ \A c \in Receivers \ {"root"} : ProvidedBy(c, key) = <<>>

\* the default configured for an injection: the default of the function's
\* parameter it is bound to, or the injection's own
ConfiguredDefault(r) ==
    IF r.injection.inject_as \in DOMAIN r.defaults THEN r.defaults[r.injection.inject_as]
    ELSE r.injection.default

\* C12: for every injection, collect or not, whose requestor yields nothing:
\* without a default on the injection or on the function's parameter the
\* resolution raises InjectionError naming the key and the parameter and the
\* body is not invoked; with a default the default is bound.
C12_NothingYielded ==
    Executing =>
        \A n \in 1..Len(last.injected) :
            LET r == last.injected[n]
            IN  NothingToYield(r.injection.key) =>
                    IF ConfiguredDefault(r) = Undefined
                    THEN /\ r.raised
                         /\ r.exc[1].type = "InjectionError"
                         /\ r.exc[1].message[1].detail.text = r.injection.inject_as
                         /\ r.exc[1].message[1].detail.choices = {r.injection.key}
                         /\ last.executed = <<>>
                    ELSE /\ ~r.raised
                         /\ r.value = Scalar(ConfiguredDefault(r))

----------------------------------------------------------------------------
(* C13 *)

\* C13: after root.compose(sub), when a command dispatched through the root
\* requests a key the root has not provided itself, the value given to
\* sub.provide for that key is yielded to the request.
C13_SubCommanderSupplies ==
    Executing =>
        \A n \in 1..Len(last.injected) :
            LET r == last.injected[n]
                key == r.injection.key
            IN  (/\ composed["root"] > 0
                 /\ key # StaticKey
                 /\ ProvidedBy("root", key) = <<>>
                 /\ ProvidedBy("sub", key) # <<>>) =>
                    /\ ~r.raised
                    /\ IF r.injection.collect
                       THEN \E m \in 1..Len(r.value.items) :
                               r.value.items[m] = ProvidedBy("sub", key)[1]
                       ELSE r.value = Scalar(ProvidedBy("sub", key)[1])

----------------------------------------------------------------------------
(* C14 *)

\* the command lists, as they were before a compose call, of the commanders
\* that were given to it, one after the other
RECURSIVE ListsBefore(_, _)
ListsBefore(before, commanders) ==
    IF commanders = <<>> THEN <<>>
    ELSE (IF Head(commanders) = "sub" THEN before.sub ELSE LeafCommands)
         \o ListsBefore(before, Tail(commanders))

\* the indices of the executable commands of the root's list, in list order
ExecutableIndices ==
    SelectSeq([k \in 1..Len(commands) |-> k], LAMBDA k : ~NotExecutable(k))

\* C14: after root.compose(c1, ..., cn) the root's command list is its own
\* commands followed by those of c1..cn in order, the lists of c1..cn are
\* left as they were, and root.dispatch resolves every executable command of
\* that list.
C14_ComposeExtendsRootOnly ==
    /\ (seen.op = "compose" /\ seen.key = "root") =>
          /\ commands = seen.before.root \o ListsBefore(seen.before, seen.outer)
          /\ sub.commands = seen.before.sub
    /\ Dispatched =>
          /\ Len(last.matches) = Len(ExecutableIndices)
          /\ \A n \in 1..Len(last.matches) : last.matches[n].command = ExecutableIndices[n]

\* the root, holding a command of its own, composed two commanders that each
\* held one, and a line was dispatched that the last composed command matches
C14_Witness ==
    /\ seen.op = "compose" /\ seen.key = "root" /\ seen.outer = <<"sub", "leaf">>
    /\ seen.before.root # <<>> /\ seen.before.sub # <<>>
    /\ Dispatched
    /\ Len(last.matches) = 3
    /\ last.matches[3].type = "exact"

----------------------------------------------------------------------------
(* C15: a simulated dispatch describes and does nothing else *)

Simulated == Dispatched /\ last.simulate

\* the types of the matches a dispatch computed
ExactCount == Len(SelectSeq(last.matches, LAMBDA m : m.type = "exact"))

\* C15: with simulate=true dispatch yields exactly one CommandResult, runs no
\* command body, resolves no injection and raises neither CommandError nor
\* AmbiguousCommandError, whatever the input matches: no command, one Exact
\* match or several
C15_SimulateOnlyDescribes ==
    Simulated =>
        /\ Len(last.results) = 1
        /\ last.results[1].success /\ last.results[1].status = 0
        /\ last.executed = <<>>
        /\ last.injected = <<>>
        /\ last.error = <<>>

\* a simulated line that two commands match exactly, one of them with an
\* injection to resolve; the same line dispatched would raise
C15_Witness ==
    /\ Simulated
    /\ ExactCount = 2
    /\ \E n \in 1..Len(last.matches) :
          /\ last.matches[n].type = "exact"
          /\ commands[last.matches[n].command].inject # <<>>

\* a simulated line whose only Exact match has an injection that nothing yields
C15_WitnessOne ==
    /\ Simulated
    /\ ExactCount = 1
    /\ Execute(last.matches, last.args, FALSE).error # <<>>

\* a simulated line that no command matches
C15_WitnessNone ==
    /\ Simulated
    /\ commands # <<>>
    /\ ExactCount = 0

----------------------------------------------------------------------------
(* C16: the description of a simulated dispatch *)

\* the line at `l` of a description stands under a heading of `type`: the
\* nearest heading above it is the one of that type
UnderHeading(message, l, type) ==
    \E g \in 1..(l - 1) :
        /\ message[g].kind = "group" /\ message[g].detail.text = type
        /\ \A between \in (g + 1)..(l - 1) : message[between].kind # "group"

\* the description lists the command of match `m` under the heading of its type
Described(message, m) ==
    \E l \in 1..Len(message) :
        /\ message[l].kind = "match"
        /\ message[l].labels = CommandLabel(m.command, m.token_mismatches)
        /\ UnderHeading(message, l, m.type)

\* C16: the message of the CommandResult of a simulated dispatch lists every
\* command whose match is Partial or Exact under the heading of its match type
C16_SimulateDescribesMatches ==
    Simulated =>
        \A n \in 1..Len(last.matches) :
            last.matches[n].type \in {"exact", "partial"}
                => Described(last.results[1].message, last.matches[n])

----------------------------------------------------------------------------
(* C17, C18: the suggestion raised when no command is an Exact match *)

\* a dispatch that raised CommandError with the suggestion as its message
Suggested ==
    /\ Executing /\ last.error # <<>>
    /\ last.error[1].type = "CommandError" /\ last.error[1].code = "INVALID_COMMAND"

\* the executable commands that are an Exact or a Partial match for args
SuggestableFor(args) == ExactFor(args) \cup PartialFor(args)

Prefix(args, n) == SubSeq(args, 1, n)

\* the lengths of the argument lists the search resolves: the input, then the
\* input shortened from its end down to one argument
SearchedLengths(args) == IF args = <<>> THEN {0} ELSE 1..Len(args)

MatchedLengths(args) == {n \in SearchedLengths(args) : SuggestableFor(Prefix(args, n)) # {}}

Max(S) == CHOOSE x \in S : \A y \in S : x >= y

\* the longest searched prefix that has an Exact or a Partial match
CandidatePrefix(args) ==
    IF MatchedLengths(args) = {} THEN args ELSE Prefix(args, Max(MatchedLengths(args)))

Candidates(args) ==
    IF MatchedLengths(args) = {} THEN {} ELSE SuggestableFor(CandidatePrefix(args))

TooManyArguments(k) ==
    <<Line("too many arguments", <<>>, NoDetail, <<>>),
      Line("usage", CommandLabel(k, <<>>), NoDetail, <<>>)>>

\* the input [cmd, extra1, extra2] of the claim: nothing is Exact or Partial
\* for it or for its first two arguments, one command is Exact for [cmd]
ExtraArguments(args) ==
    /\ Len(args) = 3
    /\ SuggestableFor(args) = {} /\ SuggestableFor(Prefix(args, 2)) = {}
    /\ Cardinality(ExactFor(Prefix(args, 1))) = 1

\* the labels of the commands a suggestion names, in the order of its lines
RECURSIVE NamedLabels(_)
NamedLabels(message) ==
    IF message = <<>> THEN <<>>
    ELSE (IF Head(message).kind \in {"usage", "candidate"} THEN <<Head(message).labels>>
          ELSE <<>>) \o NamedLabels(Tail(message))

\* C17 as claimed: for input [cmd, extra1, extra2] with no Exact or Partial
\* match for the 3- and 2-argument prefixes and exactly one command Exact for
\* [cmd], the suggestion is 'too many arguments' with that command's usage
C17_TooManyArguments ==
    (Suggested /\ ExtraArguments(last.args)) =>
        \E k \in ExactFor(Prefix(last.args, 1)) :
            last.error[1].message = TooManyArguments(k)

\* C17 amended: the same, when no other command is Partial for [cmd]; and
\* whenever the suggestion names commands, they are the candidates of the
\* longest prefix of at least one argument that has an Exact or Partial match
C17_TooManyArgumentsIfOnlyCandidate ==
    /\ (Suggested /\ ExtraArguments(last.args) /\ PartialFor(Prefix(last.args, 1)) = {}) =>
          \E k \in ExactFor(Prefix(last.args, 1)) :
              last.error[1].message = TooManyArguments(k)
    /\ Suggested =>
          LET named == NamedLabels(last.error[1].message)
              cands == Candidates(last.args)
          IN  named # <<>> =>
                /\ Len(named) = Cardinality(cands)
                /\ \A k \in cands : \E n \in 1..Len(named) : named[n] = CommandLabel(k, <<>>)
                /\ \A n \in 1..Len(named) : \E k \in cands : named[n] = CommandLabel(k, <<>>)

\* three arguments, the last two dropped by the search, one command found
C17_Witness ==
    /\ Suggested /\ ExtraArguments(last.args)
    /\ PartialFor(Prefix(last.args, 1)) = {}
    /\ last.args[2] # last.args[1]
    /\ last.error[1].message[1].kind = "too many arguments"

\* the case the amendment sets apart: a second command is Partial for [cmd]
C17_WitnessSeveral ==
    /\ Suggested /\ ExtraArguments(last.args)
    /\ PartialFor(Prefix(last.args, 1)) # {}
    /\ Len(NamedLabels(last.error[1].message)) = 2

\* C18: the suggestion text is selected by the candidate set alone: one
\* Partial candidate without token mismatch gives 'insufficient arguments'
\* with usage, one Partial candidate with mismatches gives one line per
\* mismatch (token label, validation message) and no usage, one Exact
\* candidate gives 'too many arguments' with usage, two or more candidates
\* give 'did you mean one of' and every candidate's label, none gives only
\* the 'could not find the command' line
C18_TextByCandidates ==
    Suggested =>
        LET args == last.args
            message == last.error[1].message
            prefix == CandidatePrefix(args)
            cands == Candidates(args)
            NotFound == Line("could not find the command", <<>>, NoDetail, args)
        IN  /\ cands = {} => message = <<NotFound>>
            /\ Cardinality(cands) = 1 =>
                  LET k == CHOOSE k \in cands : TRUE
                      failed == ExpectedMismatches(Chain(k), prefix)
                  IN  /\ k \in ExactFor(prefix) => message = TooManyArguments(k)
                      /\ (k \in PartialFor(prefix) /\ failed = <<>>) =>
                            message = <<Line("insufficient arguments", <<>>, NoDetail, <<>>),
                                        Line("usage", CommandLabel(k, <<>>), NoDetail, <<>>)>>
                      /\ (k \in PartialFor(prefix) /\ failed # <<>>) =>
                            message = [n \in 1..Len(failed) |->
                                          Line("mismatch", <<TokenLabel(failed[n].token, FALSE)>>,
                                               failed[n].exception.message, <<>>)]
            /\ Cardinality(cands) >= 2 =>
                  /\ Len(message) = 2 + Cardinality(cands)
                  /\ message[1] = NotFound
                  /\ message[2] = Line("did you mean one of", <<>>, NoDetail, <<>>)
                  /\ \A n \in 3..Len(message) : message[n].kind = "candidate"
                  /\ \A k \in cands : \E n \in 3..Len(message) :
                        message[n].labels = CommandLabel(k, <<>>)

\* one Partial candidate with a token mismatch: a line per mismatch, no usage
C18_Witness ==
    /\ Suggested
    /\ Cardinality(Candidates(last.args)) = 1
    /\ last.error[1].message[1].kind = "mismatch"

\* two candidates, found after the input was shortened
C18_WitnessSeveral ==
    /\ Suggested
    /\ Cardinality(Candidates(last.args)) = 2
    /\ CandidatePrefix(last.args) # last.args

C18_WitnessInsufficient ==
    Suggested /\ last.error[1].message[1].kind = "insufficient arguments"

C18_WitnessNone ==
    Suggested /\ commands # <<>> /\ Len(last.args) >= 2 /\ Candidates(last.args) = {}

----------------------------------------------------------------------------
(* C19: a comment line is skipped *)

\* the first character of the line that is not a blank is the comment marker
IsComment(line) ==
    \E i \in 1..Len(line) :
        /\ line[i] = CommentCharacter
        /\ \A j \in 1..(i - 1) : line[j] = Blank

Processed == ran.op = "process_line"

\* C19: dispatching a line whose first non-blank character is '#' raises
\* StopProcessingEvent before any command is matched or executed; the runner
\* sends nothing to the console, leaves its last status as it was and goes on
\* with the next line
C19_CommentLineSkipped ==
    (Processed /\ IsComment(ran.line)) =>
        /\ ran.event = "StopProcessingEvent"
        /\ last.matches = <<>> /\ last.executed = <<>>
        /\ console = ran.before
        /\ ran.returned = "True"

\* a comment line that starts with a blank, read after a line that failed
\* while a command is registered that matches a word of the comment
C19_Witness ==
    /\ Processed /\ IsComment(ran.line)
    /\ Head(ran.line) = Blank
    /\ ran.line[Len(ran.line)] = "a"
    /\ \E k \in 1..Len(commands) : commands[k].func = "echo"
    /\ ran.before.status = 1

----------------------------------------------------------------------------
(* C20: a ValidationError raised after resolution *)

\* the line has a unique Exact command and calling it raises ValidationError:
\* <<the exception>>, or <<>>
RaisedInCall ==
    IF Executing /\ ExactCount = 1
    THEN LET exact == SelectSeq(last.matches, LAMBDA m : m.type = "exact")
             error == CallCommand(exact[1].command, last.args).error
         IN  IF error # <<>> /\ error[1].type = "ValidationError" THEN error ELSE <<>>
    ELSE <<>>

\* the tokens of the unique Exact command that have the name the error names
NamedTokens(exc) ==
    LET exact == SelectSeq(last.matches, LAMBDA m : m.type = "exact")
    IN  SelectSeq(Chain(exact[1].command), LAMBDA token : token.name = exc.field.name)

\* C20: a ValidationError raised after resolution, while the arguments of the
\* unique Exact command are built and transformed or while its body runs,
\* leaves dispatch as a CommandError with code INVALID_ARGUMENT_FORMAT and
\* status 1; when it names a field that is a token of the command, the
\* message names that token
C20_ValidationErrorWrapped ==
    RaisedInCall # <<>> =>
        /\ Len(last.error) = 1
        /\ last.error[1].type = "CommandError"
        /\ last.error[1].code = "INVALID_ARGUMENT_FORMAT"
        /\ last.error[1].status = 1
        /\ last.error[1].message[1].detail = RaisedInCall[1].message
        /\ (RaisedInCall[1].field.name # None /\ NamedTokens(RaisedInCall[1]) # <<>>) =>
              /\ Len(last.error[1].message[1].labels) = 1
              /\ last.error[1].message[1].labels[1].text = RaisedInCall[1].field.name

\* the validate decorator of the function rejects the argument: the field is
\* the token, and the body has not run
C20_Witness ==
    /\ RaisedInCall # <<>>
    /\ RaisedInCall[1].field.token # <<>>
    /\ last.executed = <<>>
    /\ last.error[1].message[1].labels = <<TokenLabel(v_free, FALSE)>>

\* to_bool rejects the argument while the arguments are built: no field
C20_WitnessBuild ==
    /\ RaisedInCall # <<>>
    /\ RaisedInCall[1].field = NoField
    /\ last.error[1].message[1].labels = <<>>
    /\ last.error[1].message[1].detail.text = "must be one of"

\* the body raises after it has yielded a result: the field is its name
C20_WitnessBody ==
    /\ RaisedInCall # <<>>
    /\ Len(last.results) = 1
    /\ RaisedInCall[1].field.name = "mode" /\ RaisedInCall[1].field.token = <<>>

----------------------------------------------------------------------------
(* C25: a | b and a & b *)

\* the validator accepts the value: by the meaning of | and &
RECURSIVE Accepts(_, _)
Accepts(validator, value) ==
    IF validator.kind = "simple" THEN value \in validator.accepts
    ELSE IF validator.kind = "or"
    THEN Accepts(validator.first, value) \/ Accepts(validator.second, value)
    ELSE Accepts(validator.first, value) /\ Accepts(validator.second, value)

\* C25: (a | b) accepts v iff a accepts v or b accepts v, does not evaluate b
\* when a accepts, and when both reject raises one ValidationError whose
\* message is a's message and b's message joined by ' or ' in that order;
\* (a & b) accepts v iff both accept, and when a rejects raises a's error
\* without evaluating b
C25_OrAndValidators ==
    LET a == Validate(tried.a, tried.value)
        b == Validate(tried.b, tried.value)
        got == tried.outcome
    IN  /\ tried.op = "or" =>
              /\ got.ok = (Accepts(tried.a, tried.value) \/ Accepts(tried.b, tried.value))
              /\ Accepts(tried.a, tried.value) => got.evaluated = a.evaluated
              /\ ~got.ok => got.messages = a.messages \o b.messages
        /\ tried.op = "and" =>
              /\ got.ok = (Accepts(tried.a, tried.value) /\ Accepts(tried.b, tried.value))
              /\ ~Accepts(tried.a, tried.value) =>
                    /\ got.evaluated = a.evaluated
                    /\ got.messages = a.messages

\* regex(...) | is_int(11) on 'BEYONCE': both reject, the messages are joined
C25_Witness ==
    /\ tried.op = "or" /\ tried.a = regex_lower /\ tried.b = is_int_11
    /\ tried.value = "BEYONCE"
    /\ tried.outcome.messages = <<regex_lower.message, is_int.message>>

\* a & b with a composed of two validators that rejects: b is not evaluated
C25_WitnessAnd ==
    /\ tried.op = "and" /\ tried.a.kind = "or" /\ ~tried.outcome.ok
    /\ Len(tried.outcome.evaluated) = 2
    /\ Accepts(tried.b, tried.value)

----------------------------------------------------------------------------
(* C21: examples/say-some-name.py *)

\* the registry of the example, its members provided, one of its lines
\* 'say my name <value>' dispatched
SaidName(value) ==
    /\ Executing
    /\ Len(commands) = 2
    /\ commands[1].func = "say_base" /\ commands[1].parent = 0
    /\ commands[2].func = "say_my_name" /\ commands[2].parent = 1
    /\ "members" \in DOMAIN context
    /\ last.args = <<"say", "my", "name", value>>

\* the dispatch ran say_my_name and yielded one CommandResult
SaidIt ==
    /\ Len(last.executed) = 1 /\ last.executed[1].command = 2
    /\ Len(last.results) = 1 /\ last.error = <<>>

\* the dispatch raised CommandError with code INVALID_ARGUMENT_FORMAT
InvalidArgumentFormat ==
    /\ Len(last.error) = 1 /\ last.error[1].type = "CommandError"
    /\ last.error[1].code = "INVALID_ARGUMENT_FORMAT"

\* the classification of the line for say_my_name
ClassifiedAs(type) ==
    \E n \in 1..Len(last.matches) :
        last.matches[n].command = 2 /\ last.matches[n].type = type

\* C21 as claimed: 'say my name beyonce' and 'say my name 11' each execute
\* the command and yield one CommandResult; 'say my name BEYONCE' yields a
\* Partial classification for the command, surfaced as a CommandError with
\* code INVALID_ARGUMENT_FORMAT
C21_SayMyName ==
    /\ (SaidName("beyonce") \/ SaidName("11")) => SaidIt
    /\ SaidName("BEYONCE") => (ClassifiedAs("partial") /\ InvalidArgumentFormat)

\* C21 amended: 'say my name BEYONCE' is an Exact match of the command (its
\* variable has no validator at match time); the validator of the function
\* rejects the value when the command is called, the body does not run and
\* the caller gets a CommandError with code INVALID_ARGUMENT_FORMAT that
\* names the token and carries both messages
C21_SayMyNameExactThenRejected ==
    /\ (SaidName("beyonce") \/ SaidName("11")) => SaidIt
    /\ SaidName("BEYONCE") =>
          /\ ClassifiedAs("exact")
          /\ InvalidArgumentFormat
          /\ last.executed = <<>> /\ last.results = <<>>
          /\ last.error[1].message[1].labels[1].text = "name"
          /\ last.error[1].message[1].detail.parts = <<regex_lower.message, is_int.message>>

C21_Witness == SaidName("BEYONCE") /\ InvalidArgumentFormat

C21_WitnessSaid == SaidName("11") /\ SaidIt

----------------------------------------------------------------------------
(* C22: a CommandError of the command leaves dispatch as it was raised *)

\* the command of the unique Exact match of the dispatch
ExactCommand ==
    SelectSeq(last.matches, LAMBDA m : m.type = "exact")[1].command

\* the body of the Exact command ran and raised its CommandError
BodyFailed ==
    /\ Executing /\ ExactCount = 1
    /\ commands[ExactCommand].func \in FailingBodies
    /\ last.executed # <<>>

\* the injections of the Exact command that nothing answers: no provider of
\* the key and no default
Unprovided ==
    SelectSeq(AllInjections(ExactCommand).value,
              LAMBDA injection : /\ injection.key \notin DOMAIN context
                                 /\ injection.key # StaticKey
                                 /\ injection.key \notin DOMAIN commands[ExactCommand].defaults
                                 /\ injection.default = Undefined)

InjectionFailed == Executing /\ ExactCount = 1 /\ Unprovided # <<>>

\* C22: a CommandError raised by the body of the resolved command, or an
\* InjectionError raised while its injections are resolved, leaves dispatch as
\* the very exception raised: same type, message, data, status and code,
\* neither INVALID_ARGUMENT_FORMAT nor INVALID_COMMAND; the results the body
\* yielded before it have reached the caller
C22_CommandErrorUnchanged ==
    /\ BodyFailed =>
          /\ last.error = <<BodyError>>
          /\ last.error[1].code = "APP.failure" /\ last.error[1].status = 2
          /\ last.error[1].data = "payload"
          /\ Len(last.results) = 1
          /\ last.results[1].data = last.executed[1].kwargs
    /\ InjectionFailed =>
          /\ Len(last.error) = 1
          /\ last.error[1].type = "InjectionError"
          /\ last.error[1].code = None /\ last.error[1].status = 1
          /\ DOMAIN last.error[1] = {"type", "code", "status", "message"}
          /\ last.error[1].message[1].kind = "not_provided"
          /\ last.error[1].message[1].detail =
                [text |-> Unprovided[1].inject_as, choices |-> {Unprovided[1].key}]
          /\ last.results = <<>> /\ last.executed = <<>>

\* the body yielded one result and raised
C22_Witness == BodyFailed /\ Len(last.results) = 1 /\ last.error # <<>>

\* the second injection of the command is the one nothing provides
C22_WitnessInjection ==
    /\ InjectionFailed
    /\ Len(last.injected) = 2 /\ ~last.injected[1].raised
    /\ last.error[1].type = "InjectionError"

----------------------------------------------------------------------------
(* C26: the rate limit of RateLimitBackPressure and the items it forwards *)

\* the indices of the items decided on, in a sequence of them
IndicesOf(items) == {items[n].index : n \in 1..Len(items)}

\* C26: a RateLimitBackPressure starts with rate limit 1 and forwards every
\* item while it has it; a back-pressure signal replaces the limit by
\* max(1, limit + modifier); with the default modifier the limit is 1 plus the
\* number of signals received, so it grows by 1 with each and is never reset;
\* the limit is at least 1 always; the item at index i is forwarded if
\* i mod limit = 0 for the limit in force when it is pulled, and dropped
\* otherwise
C26_RateLimit ==
    limiter.op # "none" =>
        /\ limiter.rate_limit >= 1
        /\ limiter.op = "new" => limiter.rate_limit = 1
        /\ limiter.op = "increase" =>
              /\ limiter.rate_limit = Max({1, limiter.before + limiter.rate_modifier})
              /\ limiter.rate_modifier = 1 => limiter.rate_limit = limiter.before + 1
        /\ limiter.rate_modifier = 1 => limiter.rate_limit = 1 + limiter.signals
        /\ \A n \in 1..Len(limiter.forwarded) :
              limiter.forwarded[n].index % limiter.forwarded[n].limit = 0
        /\ \A n \in 1..Len(limiter.dropped) :
              limiter.dropped[n].index % limiter.dropped[n].limit # 0
        /\ \A n \in 1..Len(limiter.dropped) : limiter.dropped[n].limit > 1
        /\ IndicesOf(limiter.forwarded) \cup IndicesOf(limiter.dropped)
              = 0..(limiter.index - 1)
        /\ IndicesOf(limiter.forwarded) \cap IndicesOf(limiter.dropped) = {}
        /\ Len(limiter.forwarded) + Len(limiter.dropped) = limiter.index

\* two signals with the default modifier, then an item dropped and a later
\* one forwarded under the limit 3
C26_Witness ==
    /\ limiter.rate_modifier = 1 /\ limiter.signals = 2 /\ limiter.rate_limit = 3
    /\ \E n \in 1..Len(limiter.dropped) : limiter.dropped[n].limit = 3
    /\ \E n \in 1..Len(limiter.forwarded) :
          limiter.forwarded[n].limit = 3 /\ limiter.forwarded[n].index = 3

\* a modifier below zero leaves the limit at 1
C26_WitnessFloor ==
    /\ limiter.op = "increase" /\ limiter.rate_modifier < 0
    /\ limiter.before = 1 /\ limiter.rate_limit = 1

----------------------------------------------------------------------------
(* C24: the search for suggestable matches *)

\* the commands of the matches the search of the dispatch returns
SearchResult ==
    LET found == FindSuggestableMatches(last.matches, last.args)
    IN  {found[k].command : k \in 1..Len(found)}

\* what the search does whatever it returns: it ends after fewer retries
\* than the input has arguments; the k-th retry resolves the input without
\* its last k arguments, a list of at least one argument; a retry is made only
\* when the list before it has neither an Exact nor a Partial match, and the
\* matches returned are those of the last list resolved
SearchShortens ==
    LET resolved == ResolvedBySearch(last.matches, last.args)
    IN  /\ Len(resolved) <= Max({0, Len(last.args) - 1})
        /\ \A k \in 1..Len(resolved) :
              /\ resolved[k] = Prefix(last.args, Len(last.args) - k)
              /\ Len(resolved[k]) >= 1
              /\ SuggestableFor(Prefix(last.args, Len(last.args) - k + 1)) = {}
        /\ SearchResult = Candidates(last.args)
        /\ SearchResult # {} =>
              SuggestableFor(Prefix(last.args, Len(last.args) - Len(resolved))) = SearchResult

\* C24 as stated: the search ends, each retry drops exactly the last
\* argument, it stops at the longest prefix that has an Exact or a Partial
\* match, never resolves fewer than one argument, and returns the empty list
\* when no prefix of at least one argument has a match
C24_SuggestionSearch ==
    Suggested =>
        /\ SearchShortens
        /\ (\A n \in 1..Len(last.args) : SuggestableFor(Prefix(last.args, n)) = {})
              => SearchResult = {}

\* C24: the search ends, each retry drops exactly the last argument, it stops
\* at the longest prefix that has an Exact or a Partial match and never
\* resolves fewer than one argument; it returns the empty list exactly when
\* neither the input nor a prefix of it of at least one argument has a match:
\* the matches of an empty input are returned as they are
C24_SuggestionSearchOfInput ==
    Suggested =>
        /\ SearchShortens
        /\ SearchResult = {} <=>
              /\ SuggestableFor(last.args) = {}
              /\ \A n \in 1..Len(last.args) : SuggestableFor(Prefix(last.args, n)) = {}
        /\ (SearchResult = {} /\ last.args # <<>>) =>
              Len(ResolvedBySearch(last.matches, last.args)) = Len(last.args) - 1
        /\ (last.args = <<>> /\ commands # <<>>) => SearchResult = SuggestableFor(<<>>)

\* two retries find the candidates of the one-argument prefix
C24_Witness ==
    /\ Suggested /\ Len(last.args) = 3
    /\ Len(ResolvedBySearch(last.matches, last.args)) = 2
    /\ SearchResult # {}

\* no prefix has a match: the search ends at the one-argument prefix
C24_WitnessNone ==
    /\ Suggested /\ Len(last.args) = 3 /\ commands # <<>>
    /\ Len(ResolvedBySearch(last.matches, last.args)) = 2
    /\ SearchResult = {}

\* the empty input is Partial for a command: the search returns it
C24_WitnessEmpty == Suggested /\ last.args = <<>> /\ SearchResult # {}

----------------------------------------------------------------------------
(* C28: no AmbiguousCommandError from the suggestion *)

\* the dispatch found no command Exact for its input
NoExactForInput == Executing /\ ExactFor(last.args) = {}

\* C28: when no command is Exact for the whole input the dispatch ends in a
\* CommandError with code INVALID_COMMAND and never in AmbiguousCommandError;
\* when the prefix the search stops at is Exact for two or more commands, the
\* message lists every one of them as a candidate
C28_SuggestionNeverAmbiguous ==
    NoExactForInput =>
        /\ Len(last.error) = 1
        /\ last.error[1].type = "CommandError"
        /\ last.error[1].code = "INVALID_COMMAND"
        /\ last.executed = <<>> /\ last.results = <<>>
        /\ Cardinality(ExactFor(CandidatePrefix(last.args))) >= 2 =>
              LET message == last.error[1].message
              IN  /\ message[2].kind = "did you mean one of"
                  /\ \A k \in ExactFor(CandidatePrefix(last.args)) :
                        \E n \in 3..Len(message) :
                            /\ message[n].kind = "candidate"
                            /\ message[n].labels = CommandLabel(k, <<>>)

\* the input without its last argument is Exact for both commands registered
C28_Witness ==
    /\ NoExactForInput /\ Len(last.args) >= 2
    /\ Cardinality(ExactFor(Prefix(last.args, Len(last.args) - 1))) = 2
    /\ last.error # <<>> /\ last.error[1].code = "INVALID_COMMAND"

----------------------------------------------------------------------------
(* C27: the resolution of an injection ends *)

\* C27: whatever the commanders have composed and provided, every injection
\* a dispatch resolves ends with a value, a default or InjectionError: the
\* requestors do not call each other without bound, no resolution ends in
\* RecursionError
C27_InjectionTerminates ==
    Executing =>
        /\ \A n \in 1..Len(last.injected) :
              last.injected[n].raised => last.injected[n].exc[1].type = "InjectionError"
        /\ last.error # <<>> => last.error[1].type # "RecursionError"

----------------------------------------------------------------------------
(* C23: the runner's loop after a CommandError *)

\* _process_line has handled a line that input() returned
LineDone == ran.op = "process_line" /\ pc = "idle"

\* the writes of results of the line that went through
WrittenResults == SelectSeq(limiter.written, LAMBDA w : ~w.blocked)

\* C23: a line whose dispatch ends in a CommandError (invalid command,
\* invalid argument, injection failure, a ShouldThrottleException no
\* interceptor took) is reported to the console once, after the results that
\* were written, and the loop goes on; the loop is asked to end only by the
\* end of input without ignore-EOF and by ConsoleExitEvent; an empty line
\* dispatches nothing
C23_ErrorReportedLoopContinues ==
    /\ (LineDone /\ ran.event \in CommandErrors \cup {"ShouldThrottleException"}) =>
          /\ ran.returned = "True"
          /\ Len(console.sent) = Len(ran.before.sent) + Len(WrittenResults) + 1
          /\ console.sent[Len(console.sent)].error
          /\ \A n \in (Len(ran.before.sent) + 1)..(Len(console.sent) - 1) :
                ~console.sent[n].error
    /\ ran.returned \in {"False", "crash"} =>
          \/ ran.op = "eof" /\ ran.returned = "False"
          \/ LineDone /\ ran.event = "ConsoleExitEvent" /\ ran.returned = "False"
    /\ (LineDone /\ ran.line = <<>>) =>
          /\ last = NoCall /\ console = ran.before /\ ran.returned = "True"

----------------------------------------------------------------------------
(* C29: a blocked write and the back-pressure interceptor of the command *)

\* the line called a command, decorated with @back_pressure or not
Called29 == LineDone /\ last.op = "dispatch" /\ last.executed # <<>>

BlockedWrites == SelectSeq(limiter.written, LAMBDA w : w.blocked)

\* C29: with the interceptor of a decorated command registered, every
\* blocked write of a result is suppressed, raises the rate limit once, the
\* result is not written again and the next results are pulled to the end of
\* the generator; without an interceptor the first blocked write ends the
\* line: nothing more is pulled and the ShouldThrottleException is reported;
\* the interceptor is on the context's list only while the generator of the
\* command is active
C29_InterceptedThrottle ==
    /\ (Called29 /\ Decorated(last)) =>
          /\ ran.event # "ShouldThrottleException"
          /\ limiter.signals = Len(BlockedWrites)
          /\ limiter.rate_limit = 1 + Len(BlockedWrites)
          /\ limiter.index = Len(last.results)
          /\ \A n, m \in 1..Len(limiter.written) :
                n # m => limiter.written[n].index # limiter.written[m].index
          /\ Len(console.sent) >= Len(ran.before.sent) + Len(WrittenResults)
    /\ (Called29 /\ ~Decorated(last) /\ BlockedWrites # <<>>) =>
          /\ ran.event = "ShouldThrottleException"
          /\ Len(BlockedWrites) = 1
          /\ limiter.written[Len(limiter.written)].blocked
          /\ limiter.index = Len(limiter.written)
          /\ limiter.reported = <<[type |-> "ShouldThrottleException", blocked |-> FALSE]>>
          /\ console.sent[Len(console.sent)].error
    /\ LineDone => limiter.interceptors = <<>>

----------------------------------------------------------------------------
(* C30: the interface manager and its children *)

\* run_and_stop_interfaces has returned in the manager process
Returned30 ==
    \/ manager.op = "run" /\ manager.pc = "install"
    \/ manager.op = "finish" /\ manager.pc = "exited"

TrackedBefore == {spec \in InterfaceSpecs : manager.before[spec] # NoPid}

\* the manager process has ended
ManagerEnded == manager.pc \in {"exited", "raised"}

\* C30: after run_and_stop_interfaces(W) the tracked specifications are W,
\* every spec tracked before and not in W got SIGTERM once and is untracked,
\* every new spec of W got one child of its own; handling the SIGCHLD of a
\* child untracks its spec; the wait loop is left only on SIGTERM, on Ctrl-C
\* or without a tracked child; and the manager does not end with a child
\* tracked: it has sent SIGTERM to each
C30_ManagerTracksChildren ==
    /\ Returned30 =>
          /\ RunningSet(manager) = manager.wanted
          /\ \A spec \in InterfaceSpecs :
                /\ manager.terminated[spec] =
                      IF spec \in TrackedBefore \ manager.wanted THEN 1 ELSE 0
                /\ manager.forked[spec] =
                      IF spec \in manager.wanted \ TrackedBefore THEN 1 ELSE 0
          /\ \A spec, other \in manager.wanted :
                spec # other => manager.tracked[spec] # manager.tracked[other]
    /\ (manager.op = "handle" /\ manager.info.si_signo = "SIGCHLD") =>
          \A spec \in InterfaceSpecs : manager.tracked[spec] # manager.info.si_pid
    /\ (manager.pc \in {"finish", "exited", "raised"} /\ manager.reason # "exit(1)") =>
          manager.reason \in {"SIGTERM", "KeyboardInterrupt", "no children"}
    /\ ManagerEnded =>
          /\ RunningSet(manager) = {}
          /\ manager.op = "finish" =>
                \A spec \in TrackedBefore : manager.terminated[spec] = 1

====
